---- MODULE Spec2Model ----
(***************************************************************************)
(* Verification orchestration of app-attest-middleware: the assertion and  *)
(* attestation adapters, the assertion middleware and the request-id       *)
(* provider, modelled as one operation running at a time.  Collaborators    *)
(* (plugins, verification services, generators, the wrapped handler) are    *)
(* the environment: each call returns any value of a small set.             *)
(***************************************************************************)
EXTENDS Integers, Sequences, FiniteSets, TLC

\* ---------------------------------------------------------------- bounds
MaxCounter == 2
MaxBodyLen == 3

\* ---------------------------------------------------------------- values
Nil == "nil"

Bytes == {0, 1}

SeqsUpTo(S, n) == UNION {[1..k -> S] : k \in 0..n}

Bodies == SeqsUpTo(Bytes, MaxBodyLen)

Counters == (0..MaxCounter) \cup {42}

Challenges == {"", "assigned", "challenge"}

PublicKeys == {Nil, "pubkey"}

AssertionObjects == {Nil, "assertionObject"}

\* ---------------------------------------------------------------- errors
\* A Go error value: chain is the identity of the value followed by the
\* identities reached by Unwrap, text is what Error() prints.
NilErr == [chain |-> <<>>, text |-> <<>>]

ErrNewChallenge == [chain |-> <<"ErrNewChallenge">>, text |-> <<"no challenge assigned">>]

ErrBadRequest == [chain |-> <<"ErrBadRequest">>, text |-> <<"bad request">>]

ErrInternal == [chain |-> <<"ErrInternal">>, text |-> <<"internal error">>]

ErrAttestationRequired == [chain |-> <<"ErrAttestationRequired">>, text |-> <<"attestation required">>]

Sentinels == {ErrNewChallenge, ErrAttestationRequired, ErrBadRequest, ErrInternal}

\* errors.New(msg) in a collaborator: a value of its own identity
CollabErr == [chain |-> <<"collaborator error">>, text |-> <<"db error">>]

\* what a plugin or a verification service may return as its error
CollabErrs == {CollabErr} \cup Sentinels

CollabResults == {NilErr} \cup CollabErrs

\* errors.Is(err, target) for a comparable target
Is(err, target) == \E i \in 1..Len(err.chain) : err.chain[i] = target.chain[1]

\* fmt.Errorf("%w" + msg + "%v", wrapped, cause): a new value that unwraps
\* to wrapped only; cause contributes its text
Errorf_M(wrapped, msg, cause) ==
    [chain |-> <<"wrapError">> \o wrapped.chain \o cause.chain,
     text |-> wrapped.text \o <<msg>> \o cause.text]

Errorf(wrapped, msg, cause) ==
    [chain |-> <<"wrapError">> \o wrapped.chain,
     text |-> wrapped.text \o <<msg>> \o cause.text]


\* ---------------------------------------------------------------- state
VARIABLES
    as,     \* the running assertionAdapter.Verify call: position and locals
    at,     \* the running attestationAdapter.Verify call
    nc,     \* the running attestationAdapter.NewChallenge call
    mw,     \* the running AssertionMiddleware.Handler request
    hd,     \* the running AppAttestHandler.Verify or NewChallenge request
    er,     \* the last direct call of requestid.EnsureRequest and its result
    th,     \* concurrent request threads inside requestid.EnsureRequest
    generator, \* requestid: the process-wide generator slot (atomic.Value)
    panicked,  \* TRUE once a call has panicked
    lastSet,   \* history: the argument of the most recent UseGenerator call
    everSet,   \* history: TRUE once a UseGenerator call has stored a generator
    ta,        \* concurrent request threads inside assertionAdapter.Verify
    store,     \* what the plugin keeps for their device and session
    calls,  \* collaborator calls made by the running operation, in order
    lg,     \* the *log.Logger inside one StdLogger: its prefix, its output
    tl      \* concurrent threads inside a level method of that StdLogger

vars == <<as, at, nc, mw, hd, er, th, generator, panicked, lastSet, everSet, ta, store, calls,
          lg, tl>>

Call(fn, args, res) == [fn |-> fn, args |-> args, res |-> res]

\* ------------------------------------------- assertionAdapter (part_004)
AsIdle ==
    [pc |-> "idle", body |-> <<>>, assertion |-> Nil, challenge |-> "",
     pubkey |-> Nil, counter |-> 0, assignedChallenge |-> "", cnt |-> 0,
     ret |-> NilErr]

\* a.plugin.ParseRequest(ctx, r) returned (a, c, e)
assertionAdapter_ParseRequest(f, a, c, e) ==
    IF e # NilErr
    THEN [f EXCEPT !.assertion = a, !.challenge = c,
                   !.ret = ErrBadRequest, !.pc = "done"]
    ELSE [f EXCEPT !.assertion = a, !.challenge = c,
                   !.pc = "PublicKeyAndCounter"]

\* mutant: the nil-key check is missing
assertionAdapter_PublicKeyAndCounter_M(f, k, n, e) ==
    IF e # NilErr
    THEN [f EXCEPT !.pubkey = k, !.counter = n,
                   !.ret = ErrInternal, !.pc = "done"]
    ELSE [f EXCEPT !.pubkey = k, !.counter = n,
                   !.pc = "AssignedChallenge"]

\* a variant that sends a device without a stored key for a new challenge
assertionAdapter_PublicKeyAndCounter_M2(f, k, n, e) ==
    IF e # NilErr
    THEN [f EXCEPT !.pubkey = k, !.counter = n,
                   !.ret = ErrInternal, !.pc = "done"]
    ELSE IF k = Nil
    THEN [f EXCEPT !.pubkey = k, !.counter = n,
                   !.ret = ErrNewChallenge, !.pc = "done"]
    ELSE [f EXCEPT !.pubkey = k, !.counter = n,
                   !.pc = "AssignedChallenge"]

\* a.plugin.PublicKeyAndCounter(ctx, r) returned (k, n, e)
assertionAdapter_PublicKeyAndCounter(f, k, n, e) ==
    IF e # NilErr
    THEN [f EXCEPT !.pubkey = k, !.counter = n,
                   !.ret = ErrInternal, !.pc = "done"]
    ELSE IF k = Nil
    THEN [f EXCEPT !.pubkey = k, !.counter = n,
                   !.ret = ErrAttestationRequired, !.pc = "done"]
    ELSE [f EXCEPT !.pubkey = k, !.counter = n,
                   !.pc = "AssignedChallenge"]

\* mutant: the empty-challenge check is missing
assertionAdapter_AssignedChallenge_M(f, c, e) ==
    IF e # NilErr
    THEN [f EXCEPT !.assignedChallenge = c,
                   !.ret = ErrInternal, !.pc = "done"]
    ELSE [f EXCEPT !.assignedChallenge = c, !.pc = "Verify"]

\* a.plugin.AssignedChallenge(ctx, r) returned (c, e)
assertionAdapter_AssignedChallenge(f, c, e) ==
    IF e # NilErr
    THEN [f EXCEPT !.assignedChallenge = c,
                   !.ret = ErrInternal, !.pc = "done"]
    ELSE IF c = ""
    THEN [f EXCEPT !.assignedChallenge = c,
                   !.ret = ErrNewChallenge, !.pc = "done"]
    ELSE [f EXCEPT !.assignedChallenge = c, !.pc = "Verify"]

\* the arguments of a.NewService(assignedChallenge, pubkey, counter)
assertionAdapter_NewService(f) == <<f.assignedChallenge, f.pubkey, f.counter>>

\* the arguments of service.Verify(assertion, challenge, r.Body)
assertionAdapter_VerifyArgs(f) == <<f.assertion, f.challenge, f.body>>

\* mutant: a failed verification is reported as Internal
assertionAdapter_Verify_M(f, n, e) ==
    IF e # NilErr
    THEN [f EXCEPT !.cnt = n, !.ret = ErrInternal, !.pc = "done"]
    ELSE [f EXCEPT !.cnt = n, !.pc = "UpdateCounter"]

\* service.Verify returned (n, e)
assertionAdapter_Verify(f, n, e) ==
    IF e # NilErr
    THEN [f EXCEPT !.cnt = n, !.ret = ErrBadRequest, !.pc = "done"]
    ELSE [f EXCEPT !.cnt = n, !.pc = "UpdateCounter"]

\* mutant: the stored counter is written back instead of the new one
assertionAdapter_UpdateCounterArgs_M(f) == <<f.counter>>

\* the counter handed to a.plugin.UpdateCounter(ctx, r, cnt)
assertionAdapter_UpdateCounterArgs(f) == <<f.cnt>>

\* a.plugin.UpdateCounter returned e
assertionAdapter_UpdateCounter(f, e) ==
    IF e # NilErr
    THEN [f EXCEPT !.ret = ErrInternal, !.pc = "done"]
    ELSE [f EXCEPT !.ret = NilErr, !.pc = "done"]

\* ---- assertion requests of one device and session handled concurrently
Threads == {1, 2}

\* the plugin's record for the device and its session: the counter last
\* persisted with UpdateCounter and the challenge now assigned
StoreInit == [counter |-> 0, challenge |-> ""]

\* the service of a.NewService(assignedChallenge, pubkey, counter) verifying
\* an assertion whose counter is n: accepted only if n exceeds the counter the
\* service was constructed with
VerifyErr == [chain |-> <<"verify error">>, text |-> <<"invalid counter">>]

ServiceVerify(f, n) ==
    IF n > f.counter THEN <<n, NilErr>> ELSE <<0, VerifyErr>>

\* ----------------------------------------- attestationAdapter (part_003)
AttestationObjects == {Nil, "attestationObject"}

Hashes == {Nil, "hash"}

KeyIDs == {Nil, "key"}

Results == {Nil, "result"}

\* the result slot of a request handed to Verify may already hold a value
OldResults == {Nil, "oldResult"}

NewChallenges == {"", "mock-challenge"}

AtIdle ==
    [pc |-> "idle", Result0 |-> Nil, Result |-> Nil, attestObj |-> Nil,
     clientDataHash |-> Nil, keyID |-> Nil, assigned |-> FALSE,
     result |-> Nil, ret |-> NilErr]

\* mutant: the flow goes on after a failed ExtractData
attestationAdapter_ExtractData_M(f, o, h, k, e) ==
    IF e # NilErr
    THEN [f EXCEPT !.attestObj = o, !.clientDataHash = h, !.keyID = k,
                   !.ret = Errorf(ErrBadRequest, ": failed to parse request: ", e),
                   !.pc = "IsChallengeAssigned"]
    ELSE [f EXCEPT !.attestObj = o, !.clientDataHash = h, !.keyID = k,
                   !.pc = "IsChallengeAssigned"]

\* a.plugin.ExtractData(ctx, r) returned (o, h, k, e)
attestationAdapter_ExtractData(f, o, h, k, e) ==
    IF e # NilErr
    THEN [f EXCEPT !.attestObj = o, !.clientDataHash = h, !.keyID = k,
                   !.ret = Errorf(ErrBadRequest, ": failed to parse request: ", e),
                   !.pc = "done"]
    ELSE [f EXCEPT !.attestObj = o, !.clientDataHash = h, !.keyID = k,
                   !.pc = "IsChallengeAssigned"]

\* mutant: the assignment is tested before the error
attestationAdapter_IsChallengeAssigned_M(f, b, e) ==
    IF ~b
    THEN [f EXCEPT !.assigned = b, !.ret = ErrNewChallenge, !.pc = "done"]
    ELSE IF e # NilErr
    THEN [f EXCEPT !.assigned = b,
                   !.ret = Errorf(ErrInternal, ": failed to check challenge: ", e),
                   !.pc = "done"]
    ELSE [f EXCEPT !.assigned = b, !.pc = "Verify"]

\* mutant: the assignment is not tested at all
attestationAdapter_IsChallengeAssigned_M2(f, b, e) ==
    IF e # NilErr
    THEN [f EXCEPT !.assigned = b,
                   !.ret = Errorf(ErrInternal, ": failed to check challenge: ", e),
                   !.pc = "done"]
    ELSE [f EXCEPT !.assigned = b, !.pc = "Verify"]

\* a.plugin.IsChallengeAssigned(ctx, r) returned (b, e)
attestationAdapter_IsChallengeAssigned(f, b, e) ==
    IF e # NilErr
    THEN [f EXCEPT !.assigned = b,
                   !.ret = Errorf(ErrInternal, ": failed to check challenge: ", e),
                   !.pc = "done"]
    ELSE IF ~b
    THEN [f EXCEPT !.assigned = b, !.ret = ErrNewChallenge, !.pc = "done"]
    ELSE [f EXCEPT !.assigned = b, !.pc = "Verify"]

\* the arguments of a.service.Verify(attestObj, clientDataHash, keyID)
attestationAdapter_VerifyArgs(f) == <<f.attestObj, f.clientDataHash, f.keyID>>

\* mutant: the result is not attached to the request
attestationAdapter_Verify_M(f, res, e) ==
    IF e # NilErr
    THEN [f EXCEPT !.result = res,
                   !.ret = Errorf(ErrBadRequest, ": failed to verify attestation: ", e),
                   !.pc = "done"]
    ELSE [f EXCEPT !.result = res, !.pc = "StoreResult"]

\* a.service.Verify returned (res, e); on success r.Result = result
attestationAdapter_Verify(f, res, e) ==
    IF e # NilErr
    THEN [f EXCEPT !.result = res,
                   !.ret = Errorf(ErrBadRequest, ": failed to verify attestation: ", e),
                   !.pc = "done"]
    ELSE [f EXCEPT !.result = res, !.Result = res, !.pc = "StoreResult"]

\* a.plugin.StoreResult(ctx, r) sees the request with its result slot
attestationAdapter_StoreResultArgs(f) == <<f.Result>>

\* a.plugin.StoreResult returned e
attestationAdapter_StoreResult(f, e) ==
    IF e # NilErr
    THEN [f EXCEPT !.ret = Errorf(ErrInternal, ": failed to store result: ", e),
                   !.pc = "done"]
    ELSE [f EXCEPT !.ret = NilErr, !.pc = "done"]

NcIdle == [pc |-> "idle", challenge |-> "", ret |-> NilErr]

\* a variant that passes the plugin's failure on as a BadRequest
attestationAdapter_NewChallenge_M(f, c, e) ==
    IF e # NilErr
    THEN [f EXCEPT !.challenge = "",
                   !.ret = Errorf(ErrBadRequest, ": failed to generate new challenge: ", e),
                   !.pc = "done"]
    ELSE [f EXCEPT !.challenge = c, !.ret = NilErr, !.pc = "done"]

\* attestationAdapter.NewChallenge: a.plugin.NewChallenge returned (c, e)
attestationAdapter_NewChallenge(f, c, e) ==
    IF e # NilErr
    THEN [f EXCEPT !.challenge = "",
                   !.ret = Errorf(ErrInternal, ": failed to generate new challenge: ", e),
                   !.pc = "done"]
    ELSE [f EXCEPT !.challenge = c, !.ret = NilErr, !.pc = "done"]

\* ------------------------------------------------- requestid (request.go)
GeneratorTypes == {"uuidV4Generator", "uuidV6Generator", "sonyFlakeGenerator", "mockGenerator"}

\* the zero atomic.Value
NoGenerator == [type |-> "none", inst |-> 0]

\* two generator values of every concrete type
Instances == {1, 2}

Generators == {[type |-> t, inst |-> i] : t \in GeneratorTypes, i \in Instances}

ErrNotInitialized ==
    [chain |-> <<"generator not initialized">>, text |-> <<"generator not initialized">>]

GenErr == [chain |-> <<"generate error">>, text |-> <<"generate error">>]

\* what NextID may return
NextIDs == {"", "generated_id"}

HeaderIDs == {"", "external-id-999"}

\* generator.Store(gen): atomic.Value panics on a nil value and on a value
\* whose concrete type differs from the stored one
UseGenerator(slot, gen) ==
    IF gen = NoGenerator \/ (slot # NoGenerator /\ slot.type # gen.type)
    THEN [slot |-> slot, panic |-> TRUE]
    ELSE [slot |-> gen, panic |-> FALSE]

\* generator.Load().(Generator), nil when nothing was stored
currentGenerator(slot) == slot

\* ctx.Value(requestIDKey).(string), "" when absent
FromContext(r) == r.ctxID

\* a variant that asks the generator even when the header carries an id
EnsureRequest_M(slot, r, nextID, nextErr) ==
    IF currentGenerator(slot) = NoGenerator
    THEN [ok |-> FALSE, r |-> r, id |-> "", err |-> ErrNotInitialized, generated |-> 0]
    ELSE IF nextErr # NilErr
    THEN [ok |-> FALSE, r |-> r, id |-> "", err |-> nextErr, generated |-> 1]
    ELSE [ok |-> TRUE, r |-> [r EXCEPT !.ctxID = nextID],
          id |-> nextID, err |-> NilErr, generated |-> 1]

\* a variant that returns the id without attaching it to the context
EnsureRequest_M2(slot, r, nextID, nextErr) ==
    IF currentGenerator(slot) = NoGenerator
    THEN [ok |-> FALSE, r |-> r, id |-> "", err |-> ErrNotInitialized, generated |-> 0]
    ELSE IF r.XRequestID # ""
    THEN [ok |-> TRUE, r |-> [r EXCEPT !.ctxID = r.XRequestID],
          id |-> r.XRequestID, err |-> NilErr, generated |-> 0]
    ELSE IF nextErr # NilErr
    THEN [ok |-> FALSE, r |-> r, id |-> "", err |-> nextErr, generated |-> 1]
    ELSE [ok |-> TRUE, r |-> r, id |-> nextID, err |-> NilErr, generated |-> 1]

\* a variant that looks at the header before it looks at the generator
EnsureRequest_M3(slot, r, nextID, nextErr) ==
    IF r.XRequestID # ""
    THEN [ok |-> TRUE, r |-> [r EXCEPT !.ctxID = r.XRequestID],
          id |-> r.XRequestID, err |-> NilErr, generated |-> 0]
    ELSE IF currentGenerator(slot) = NoGenerator
    THEN [ok |-> FALSE, r |-> r, id |-> "", err |-> ErrNotInitialized, generated |-> 0]
    ELSE IF nextErr # NilErr
    THEN [ok |-> FALSE, r |-> r, id |-> "", err |-> nextErr, generated |-> 1]
    ELSE [ok |-> TRUE, r |-> [r EXCEPT !.ctxID = nextID],
          id |-> nextID, err |-> NilErr, generated |-> 1]

\* EnsureRequest(r) with nextID, nextErr what gen.NextID() returns if called
EnsureRequest(slot, r, nextID, nextErr) ==
    IF currentGenerator(slot) = NoGenerator
    THEN [ok |-> FALSE, r |-> r, id |-> "", err |-> ErrNotInitialized, generated |-> 0]
    ELSE IF r.XRequestID # ""
    THEN [ok |-> TRUE, r |-> [r EXCEPT !.ctxID = r.XRequestID],
          id |-> r.XRequestID, err |-> NilErr, generated |-> 0]
    ELSE IF nextErr # NilErr
    THEN [ok |-> FALSE, r |-> r, id |-> "", err |-> nextErr, generated |-> 1]
    ELSE [ok |-> TRUE, r |-> [r EXCEPT !.ctxID = nextID],
          id |-> nextID, err |-> NilErr, generated |-> 1]

\* a variant that attaches the id to the request it was given
EnsureRequest_Effects_M(slot, r, e) ==
    [r |-> IF e.ok THEN [r EXCEPT !.ctxID = e.id] ELSE r, slot |-> slot]

\* what EnsureRequest leaves behind besides its results e: the request it was
\* given (r.WithContext returns a shallow copy and r.Header is only read) and
\* the generator slot (only loaded)
EnsureRequest_Effects(slot, r, e) == [r |-> r, slot |-> slot]

\* what the request's context may already hold under requestIDKey
CtxIDs == {"", "earlier-id"}

\* a direct call of EnsureRequest: its request, the slot it saw, its result
ErIdle ==
    [pc |-> "idle",
     r |-> [XRequestID |-> "", ctxID |-> ""],
     slot |-> NoGenerator,
     out |-> [ok |-> FALSE, r |-> [XRequestID |-> "", ctxID |-> ""],
              id |-> "", err |-> NilErr, generated |-> 0],
     rAfter |-> [XRequestID |-> "", ctxID |-> ""],
     slotAfter |-> NoGenerator]

\* ---- EnsureRequest statement by statement, for concurrent request threads
Readers == {1, 2}

\* gen: the generator the thread loaded; loads: how often it read the slot;
\* used: the generator whose NextID it called; seen: history, the values the
\* slot has held since the thread entered EnsureRequest
RdIdle ==
    [pc |-> "idle", r |-> [XRequestID |-> "", ctxID |-> ""],
     gen |-> NoGenerator, loads |-> 0, used |-> NoGenerator, seen |-> {},
     id |-> "", err |-> NilErr]

\* a variant that falls back on a built-in generator instead of the slot's
EnsureRequest_Load_M(f, slot) ==
    [f EXCEPT !.gen = [type |-> "uuidV4Generator", inst |-> 1], !.loads = f.loads + 1,
              !.pc = "Header"]

\* lines 64-67: gen := currentGenerator(); if gen == nil, fail
EnsureRequest_Load(f, slot) ==
    IF currentGenerator(slot) = NoGenerator
    THEN [f EXCEPT !.gen = currentGenerator(slot), !.loads = f.loads + 1,
                   !.err = ErrNotInitialized, !.pc = "done"]
    ELSE [f EXCEPT !.gen = currentGenerator(slot), !.loads = f.loads + 1,
                   !.pc = "Header"]

\* lines 68-69: id := r.Header.Get("X-Request-ID"); if id == ""
EnsureRequest_Header(f) ==
    IF f.r.XRequestID = ""
    THEN [f EXCEPT !.pc = "NextID"]
    ELSE [f EXCEPT !.id = f.r.XRequestID, !.pc = "Attach"]

\* lines 70-74: next, err := gen.NextID() on the generator loaded before
EnsureRequest_NextID(f, nextID, nextErr) ==
    IF nextErr # NilErr
    THEN [f EXCEPT !.used = f.gen, !.err = nextErr, !.pc = "done"]
    ELSE [f EXCEPT !.used = f.gen, !.id = nextID, !.pc = "Attach"]

\* lines 76-78: context.WithValue and r.WithContext
EnsureRequest_Attach(f) ==
    [f EXCEPT !.r.ctxID = f.id, !.pc = "done"]

\* ------------------------------------------ AssertionMiddleware (middleware.go)
\* TLC integers are 32 bits wide: the int64 of Config.BodyLimit is modelled
\* at that width, with the same wrap-around at its maximum
MaxInt64 == 2147483647

MinInt64 == -MaxInt64 - 1

DefaultBodyLimit == 10485760

\* a + 1 in two's complement
Inc64(a) == IF a = MaxInt64 THEN MinInt64 ELSE a + 1

BodyLimits == {0, 1, 2, MaxInt64}

Referers == {"", "/came-from"}

Configs == [BodyLimit : BodyLimits, AttestationURL : {"", "/attest"},
            NewChallengeURL : {"", "/challenge"}]

\* a variant that also replaces a limit of one byte by the default
NewAssertionMiddleware_M(config) ==
    IF config.BodyLimit <= 1
    THEN [config EXCEPT !.BodyLimit = DefaultBodyLimit]
    ELSE config

\* NewAssertionMiddleware: the effective configuration
NewAssertionMiddleware(config) ==
    IF config.BodyLimit = 0
    THEN [config EXCEPT !.BodyLimit = DefaultBodyLimit]
    ELSE config

\* a request body stream: data, and failAt the number of bytes it delivers
\* before its Read fails (-1: it never fails); present is r.Body != nil
NoBody == [present |-> FALSE, data |-> <<>>, failAt |-> -1]

Streams ==
    {NoBody} \cup
    {[present |-> TRUE, data |-> d, failAt |-> k] :
        d \in Bodies, k \in {-1, 0, 1}}

Take(s, n) == SubSeq(s, 1, IF n < Len(s) THEN n ELSE Len(s))

ReadErr == [chain |-> <<"read error">>, text |-> <<"read error">>]

\* io.ReadAll(io.LimitReader(body, n)): a LimitReader with n <= 0 is at EOF
ReadAllLimited(body, n) ==
    LET deliver == IF body.failAt >= 0 /\ body.failAt <= Len(body.data)
                   THEN body.failAt ELSE Len(body.data)
        fails   == body.failAt >= 0 /\ body.failAt <= Len(body.data)
    IN  IF n <= 0 THEN [data |-> <<>>, err |-> NilErr]
        ELSE IF deliver >= n THEN [data |-> Take(body.data, n), err |-> NilErr]
        ELSE [data |-> Take(body.data, deliver),
              err |-> IF fails THEN ReadErr ELSE NilErr]

StatusOK == 200
StatusSeeOther == 303
StatusBadRequest == 400
StatusInternalServerError == 500

StatusText(code) ==
    CASE code = StatusOK -> "OK"
      [] code = StatusSeeOther -> "See Other"
      [] code = StatusBadRequest -> "Bad Request"
      [] code = StatusInternalServerError -> "Internal Server Error"

NoResponse == [status |-> 0, text |-> "", redirect |-> Nil]

\* http.Error(w, text, code)
HttpError(text, code) == [status |-> code, text |-> text, redirect |-> Nil]

\* http.Redirect(w, r, url, code)
HttpRedirect(url, code) == [status |-> code, text |-> "", redirect |-> url]

MwIdle ==
    [pc |-> "idle",
     given |-> [BodyLimit |-> 0, AttestationURL |-> "", NewChallengeURL |-> ""],
     config |-> [BodyLimit |-> DefaultBodyLimit, AttestationURL |-> "", NewChallengeURL |-> ""],
     r |-> [XRequestID |-> "", Referer |-> "", ctxID |-> "", Body |-> NoBody],
     requestID |-> "", body |-> <<>>, err |-> NilErr, w |-> NoResponse,
     nextCalled |-> 0, nextBody |-> <<>>]

\* Handler, lines 115-121: requestid.EnsureRequest(r) returned e
Handler_EnsureRequest(f, e) ==
    IF e.err # NilErr
    THEN [f EXCEPT !.w = HttpError(StatusText(StatusInternalServerError), StatusInternalServerError),
                   !.pc = "done"]
    ELSE [f EXCEPT !.r = e.r, !.requestID = e.id, !.pc = "ReadBody"]

\* Handler, lines 122-145: read and bound the body, rebuild r.Body
Handler_ReadBody(f) ==
    IF ~f.r.Body.present
    THEN [f EXCEPT !.pc = "Verify"]
    ELSE LET rd == ReadAllLimited(f.r.Body, Inc64(f.config.BodyLimit))
         IN  IF rd.err # NilErr
             THEN [f EXCEPT !.body = rd.data,
                            !.w = HttpError(StatusText(StatusBadRequest), StatusBadRequest),
                            !.pc = "done"]
             ELSE IF Len(rd.data) > f.config.BodyLimit
             THEN [f EXCEPT !.body = rd.data,
                            !.w = HttpError(StatusText(StatusBadRequest), StatusBadRequest),
                            !.pc = "done"]
             ELSE [f EXCEPT !.body = rd.data,
                            !.r.Body = [present |-> TRUE, data |-> rd.data, failAt |-> -1],
                            !.pc = "Verify"]

\* the adapter holds the request: it, or its plugin, has read k bytes from
\* the r.Body it was given before Verify returns
Adapter_ReadsBody(f, k) ==
    [f EXCEPT !.r.Body.data = SubSeq(f.r.Body.data, k + 1, Len(f.r.Body.data))]

\* a variant that prefers the Referer header to the configured URL
Handler_Respond_M(f, e) ==
    IF e = ErrAttestationRequired
      THEN HttpRedirect(f.config.AttestationURL, StatusSeeOther)
    ELSE IF e = ErrNewChallenge
      THEN HttpRedirect(
             IF f.r.Referer # "" THEN f.r.Referer
             ELSE IF f.config.NewChallengeURL # "" THEN f.config.NewChallengeURL
             ELSE "/", StatusSeeOther)
    ELSE IF e = ErrBadRequest
      THEN HttpError(StatusText(StatusBadRequest), StatusBadRequest)
    ELSE HttpError(StatusText(StatusInternalServerError), StatusInternalServerError)

\* a variant that applies the fallbacks to the attestation redirect too
Handler_Respond_M2(f, e) ==
    IF e = ErrAttestationRequired
      THEN HttpRedirect(
             IF f.config.AttestationURL # "" THEN f.config.AttestationURL
             ELSE IF f.r.Referer # "" THEN f.r.Referer
             ELSE "/", StatusSeeOther)
    ELSE IF e = ErrNewChallenge
      THEN HttpRedirect(
             IF f.config.NewChallengeURL # "" THEN f.config.NewChallengeURL
             ELSE IF f.r.Referer # "" THEN f.r.Referer
             ELSE "/", StatusSeeOther)
    ELSE IF e = ErrBadRequest
      THEN HttpError(StatusText(StatusBadRequest), StatusBadRequest)
    ELSE HttpError(StatusText(StatusInternalServerError), StatusInternalServerError)

\* a variant whose default case answers 400
Handler_Respond_M3(f, e) ==
    IF e = ErrAttestationRequired
      THEN HttpRedirect(f.config.AttestationURL, StatusSeeOther)
    ELSE IF e = ErrNewChallenge
      THEN HttpRedirect(
             IF f.config.NewChallengeURL # "" THEN f.config.NewChallengeURL
             ELSE IF f.r.Referer # "" THEN f.r.Referer
             ELSE "/", StatusSeeOther)
    ELSE IF e = ErrInternal
      THEN HttpError(StatusText(StatusInternalServerError), StatusInternalServerError)
    ELSE HttpError(StatusText(StatusBadRequest), StatusBadRequest)

\* Handler, lines 149-173: the switch on the adapter's error
Handler_Respond(f, e) ==
    IF e = ErrAttestationRequired
      THEN HttpRedirect(f.config.AttestationURL, StatusSeeOther)
    ELSE IF e = ErrNewChallenge
      THEN HttpRedirect(
             IF f.config.NewChallengeURL # "" THEN f.config.NewChallengeURL
             ELSE IF f.r.Referer # "" THEN f.r.Referer
             ELSE "/", StatusSeeOther)
    ELSE IF e = ErrBadRequest
      THEN HttpError(StatusText(StatusBadRequest), StatusBadRequest)
    ELSE IF e = ErrInternal
      THEN HttpError(StatusText(StatusInternalServerError), StatusInternalServerError)
    ELSE HttpError(StatusText(StatusInternalServerError), StatusInternalServerError)

\* mutant: the return after the switch is missing
Handler_Verify_M(f, e) ==
    IF e # NilErr
    THEN [f EXCEPT !.err = e, !.w = Handler_Respond(f, e), !.pc = "next"]
    ELSE [f EXCEPT !.err = e, !.pc = "next"]

\* Handler, lines 147-177: m.adapter.Verify(r.Context(), req) returned e
Handler_Verify(f, e) ==
    IF e # NilErr
    THEN [f EXCEPT !.err = e, !.w = Handler_Respond(f, e), !.pc = "done"]
    ELSE [f EXCEPT !.err = e, !.pc = "next"]

\* Handler, line 178: next.ServeHTTP(w, r); the wrapped handler reads the
\* body it is given and answers with status
Handler_Next(f, status) ==
    [f EXCEPT !.nextCalled = f.nextCalled + 1,
              !.nextBody = ReadAllLimited(f.r.Body, MaxInt64).data,
              !.w = [status |-> status, text |-> "", redirect |-> Nil],
              !.pc = "done"]

\* what an Adapter implementation may return from Verify
AdapterErrs ==
    Sentinels \cup {CollabErr} \cup
    {Errorf(s, ": some context", NilErr) : s \in Sentinels}

\* --------------------------------------------- AppAttestHandler (handler.go)
\* hook: the Success or Failed hook the last step ran, "none" if none
HdIdle ==
    [pc |-> "idle", endpoint |-> "none",
     r |-> [XRequestID |-> "", ctxID |-> ""],
     w |-> NoResponse, hook |-> "none"]

\* w.WriteHeader(code) and w.Write(body)
WriteResponse(code, body) == [status |-> code, text |-> body, redirect |-> Nil]

\* NewAppAttestHandler: the default VerifyHooks.Success
VerifyHooks_Success == WriteResponse(StatusOK, "")

\* a variant that answers every failure with 500
VerifyHooks_Failed_M(err) ==
    HttpError(StatusText(StatusInternalServerError), StatusInternalServerError)

\* a variant that writes the error's message into the response body
VerifyHooks_Failed_M2(err) ==
    IF Is(err, ErrBadRequest)
    THEN HttpError(err.text[Len(err.text)], StatusBadRequest)
    ELSE HttpError(err.text[Len(err.text)], StatusInternalServerError)

\* NewAppAttestHandler: the default VerifyHooks.Failed
VerifyHooks_Failed(err) ==
    IF Is(err, ErrBadRequest)
    THEN HttpError(StatusText(StatusBadRequest), StatusBadRequest)
    ELSE HttpError(StatusText(StatusInternalServerError), StatusInternalServerError)

\* NewAppAttestHandler: the default NewChallengeHooks.Success
NewChallengeHooks_Success(challenge) == WriteResponse(StatusOK, challenge)

\* NewAppAttestHandler: the default NewChallengeHooks.Failed
NewChallengeHooks_Failed(err) ==
    IF Is(err, ErrBadRequest)
    THEN HttpError(StatusText(StatusBadRequest), StatusBadRequest)
    ELSE HttpError(StatusText(StatusInternalServerError), StatusInternalServerError)

\* Verify, lines 80-85: h.getLogger(r), that is requestid.EnsureRequest(r),
\* returned e
AppAttestHandler_Verify_getLogger(f, e) ==
    IF e.err # NilErr
    THEN [f EXCEPT !.w = HttpError(StatusText(StatusInternalServerError), StatusInternalServerError),
                   !.pc = "done"]
    ELSE [f EXCEPT !.r = e.r, !.pc = "Verify"]

\* a variant that treats NewChallengeNeeded like any other failure
AppAttestHandler_Verify_M(f, e) ==
    IF e # NilErr
    THEN [f EXCEPT !.w = VerifyHooks_Failed(e), !.hook = "VerifyHooks.Failed",
                   !.pc = "done"]
    ELSE [f EXCEPT !.w = VerifyHooks_Success, !.hook = "VerifyHooks.Success",
                   !.pc = "done"]

\* a variant that runs the Failed hook before it enters challenge issuance
AppAttestHandler_Verify_M2(f, e) ==
    IF e # NilErr
    THEN IF Is(e, ErrNewChallenge)
         THEN [f EXCEPT !.w = VerifyHooks_Failed(e), !.hook = "VerifyHooks.Failed",
                        !.pc = "NewChallenge_getLogger"]
         ELSE [f EXCEPT !.w = VerifyHooks_Failed(e), !.hook = "VerifyHooks.Failed",
                        !.pc = "done"]
    ELSE [f EXCEPT !.w = VerifyHooks_Success, !.hook = "VerifyHooks.Success",
                   !.pc = "done"]

\* Verify, lines 87-100: after VerifyHooks.Setup, h.adapter.Verify returned e
AppAttestHandler_Verify(f, e) ==
    IF e # NilErr
    THEN IF Is(e, ErrNewChallenge)
         THEN [f EXCEPT !.hook = "none", !.pc = "NewChallenge_getLogger"]
         ELSE [f EXCEPT !.w = VerifyHooks_Failed(e), !.hook = "VerifyHooks.Failed",
                        !.pc = "done"]
    ELSE [f EXCEPT !.w = VerifyHooks_Success, !.hook = "VerifyHooks.Success",
                   !.pc = "done"]

\* NewChallenge, lines 104-109: h.getLogger(r) returned e
AppAttestHandler_NewChallenge_getLogger(f, e) ==
    IF e.err # NilErr
    THEN [f EXCEPT !.w = HttpError(StatusText(StatusInternalServerError), StatusInternalServerError),
                   !.pc = "done"]
    ELSE [f EXCEPT !.r = e.r, !.pc = "NewChallenge"]

\* a variant that hands a request back to Verify when issuance reports that a
\* new challenge is needed
AppAttestHandler_NewChallenge_M(f, c, e) ==
    IF e # NilErr
    THEN IF Is(e, ErrNewChallenge)
         THEN [f EXCEPT !.hook = "none", !.pc = "Verify_getLogger"]
         ELSE [f EXCEPT !.w = NewChallengeHooks_Failed(e),
                        !.hook = "NewChallengeHooks.Failed", !.pc = "done"]
    ELSE [f EXCEPT !.w = NewChallengeHooks_Success(c),
                   !.hook = "NewChallengeHooks.Success", !.pc = "done"]

\* NewChallenge, lines 111-120: after NewChallengeHooks.Setup,
\* h.adapter.NewChallenge returned (c, e)
AppAttestHandler_NewChallenge(f, c, e) ==
    IF e # NilErr
    THEN [f EXCEPT !.w = NewChallengeHooks_Failed(e),
                   !.hook = "NewChallengeHooks.Failed", !.pc = "done"]
    ELSE [f EXCEPT !.w = NewChallengeHooks_Success(c),
                   !.hook = "NewChallengeHooks.Success", !.pc = "done"]

\* the hook call a handler step made, as an entry of calls
HookCall(f) ==
    IF f.hook = "none" THEN <<>>
    ELSE <<Call(f.hook, <<f.r.ctxID>>, <<f.w.status, f.w.text>>)>>

\* the calls of one getLogger: gen.NextID if made, then EnsureRequest
EnsureCalls(e, header, id, ge) ==
    (IF e.generated = 1 THEN <<Call("NextID", <<>>, <<id, ge>>)>> ELSE <<>>)
    \o <<Call("EnsureRequest", <<header>>, <<e.id, e.err>>)>>

\* what an AttestationAdapter may return to the handler: the above, and
\* sentinels wrapped together with a collaborator's error as the cause
HandlerErrs ==
    AdapterErrs \cup
    {Errorf(s, ": failed: ", CollabErr) : s \in {ErrBadRequest, ErrInternal}}

\* --------------------------------------------------------------- actions
\* one operation runs at a time, from its call to its return
Quiet == /\ as.pc = "idle"
         /\ at.pc = "idle"
         /\ nc.pc = "idle"
         /\ mw.pc = "idle"
         /\ hd.pc = "idle"
         /\ er.pc = "idle"
         /\ \A t \in Readers : th[t].pc = "idle"
         /\ ~panicked

\* the running operation has returned to its caller
Return ==
    /\ "done" \in {as.pc, at.pc, nc.pc, mw.pc, hd.pc, er.pc}
    /\ as' = AsIdle /\ at' = AtIdle /\ nc' = NcIdle /\ mw' = MwIdle
    /\ hd' = HdIdle /\ er' = ErIdle
    /\ calls' = <<>>
    /\ UNCHANGED <<th, generator, panicked, lastSet, everSet, ta, store, lg, tl>>

AssertionVerifyBegin ==
    /\ Quiet
    /\ \E b \in Bodies : as' = [AsIdle EXCEPT !.pc = "ParseRequest", !.body = b]
    /\ at' = AtIdle /\ nc' = NcIdle /\ mw' = MwIdle /\ calls' = <<>>
    /\ UNCHANGED <<hd, er, th, generator, panicked, lastSet, everSet, ta, store, lg, tl>>

AssertionParseRequest ==
    /\ as.pc = "ParseRequest"
    /\ \E a \in AssertionObjects, c \in Challenges, e \in CollabResults :
         /\ as' = assertionAdapter_ParseRequest(as, a, c, e)
         /\ calls' = Append(calls, Call("ParseRequest", <<as.body>>, <<a, c, e>>))
    /\ UNCHANGED <<at, nc, mw, hd, er, th, generator, panicked, lastSet, everSet, ta, store, lg, tl>>

AssertionPublicKeyAndCounter ==
    /\ as.pc = "PublicKeyAndCounter"
    /\ \E k \in PublicKeys, n \in Counters, e \in CollabResults :
         /\ as' = assertionAdapter_PublicKeyAndCounter(as, k, n, e)
         /\ calls' = Append(calls, Call("PublicKeyAndCounter", <<as.body>>, <<k, n, e>>))
    /\ UNCHANGED <<at, nc, mw, hd, er, th, generator, panicked, lastSet, everSet, ta, store, lg, tl>>

AssertionAssignedChallenge ==
    /\ as.pc = "AssignedChallenge"
    /\ \E c \in Challenges, e \in CollabResults :
         /\ as' = assertionAdapter_AssignedChallenge(as, c, e)
         /\ calls' = Append(calls, Call("AssignedChallenge", <<as.body>>, <<c, e>>))
    /\ UNCHANGED <<at, nc, mw, hd, er, th, generator, panicked, lastSet, everSet, ta, store, lg, tl>>

\* a.NewService(...) followed by service.Verify(...)
AssertionServiceVerify ==
    /\ as.pc = "Verify"
    /\ \E n \in Counters, e \in CollabResults :
         /\ as' = assertionAdapter_Verify(as, n, e)
         /\ calls' = calls \o
              <<Call("NewService", assertionAdapter_NewService(as), <<>>),
                Call("Verify", assertionAdapter_VerifyArgs(as), <<n, e>>)>>
    /\ UNCHANGED <<at, nc, mw, hd, er, th, generator, panicked, lastSet, everSet, ta, store, lg, tl>>

AssertionUpdateCounter ==
    /\ as.pc = "UpdateCounter"
    /\ \E e \in CollabResults :
         /\ as' = assertionAdapter_UpdateCounter(as, e)
         /\ calls' = Append(calls, Call("UpdateCounter", assertionAdapter_UpdateCounterArgs(as), <<e>>))
    /\ UNCHANGED <<at, nc, mw, hd, er, th, generator, panicked, lastSet, everSet, ta, store, lg, tl>>

AttestationVerifyBegin ==
    /\ Quiet
    /\ \E r \in OldResults :
         at' = [AtIdle EXCEPT !.pc = "ExtractData", !.Result0 = r, !.Result = r]
    /\ as' = AsIdle /\ nc' = NcIdle /\ mw' = MwIdle /\ calls' = <<>>
    /\ UNCHANGED <<hd, er, th, generator, panicked, lastSet, everSet, ta, store, lg, tl>>

AttestationExtractData ==
    /\ at.pc = "ExtractData"
    /\ \E o \in AttestationObjects, h \in Hashes, k \in KeyIDs, e \in CollabResults :
         /\ at' = attestationAdapter_ExtractData(at, o, h, k, e)
         /\ calls' = Append(calls, Call("ExtractData", <<at.Result>>, <<o, h, k, e>>))
    /\ UNCHANGED <<as, nc, mw, hd, er, th, generator, panicked, lastSet, everSet, ta, store, lg, tl>>

AttestationIsChallengeAssigned ==
    /\ at.pc = "IsChallengeAssigned"
    /\ \E b \in BOOLEAN, e \in CollabResults :
         /\ at' = attestationAdapter_IsChallengeAssigned(at, b, e)
         /\ calls' = Append(calls, Call("IsChallengeAssigned", <<at.Result>>, <<b, e>>))
    /\ UNCHANGED <<as, nc, mw, hd, er, th, generator, panicked, lastSet, everSet, ta, store, lg, tl>>

AttestationServiceVerify ==
    /\ at.pc = "Verify"
    /\ \E res \in Results, e \in CollabResults :
         /\ at' = attestationAdapter_Verify(at, res, e)
         /\ calls' = Append(calls, Call("Verify", attestationAdapter_VerifyArgs(at), <<res, e>>))
    /\ UNCHANGED <<as, nc, mw, hd, er, th, generator, panicked, lastSet, everSet, ta, store, lg, tl>>

AttestationStoreResult ==
    /\ at.pc = "StoreResult"
    /\ \E e \in CollabResults :
         /\ at' = attestationAdapter_StoreResult(at, e)
         /\ calls' = Append(calls, Call("StoreResult", attestationAdapter_StoreResultArgs(at), <<e>>))
    /\ UNCHANGED <<as, nc, mw, hd, er, th, generator, panicked, lastSet, everSet, ta, store, lg, tl>>

AttestationNewChallenge ==
    /\ Quiet
    /\ \E c \in NewChallenges, e \in CollabResults :
         /\ nc' = attestationAdapter_NewChallenge([NcIdle EXCEPT !.pc = "NewChallenge"], c, e)
         /\ calls' = <<Call("NewChallenge", <<>>, <<c, e>>)>>
    /\ as' = AsIdle /\ at' = AtIdle /\ mw' = MwIdle
    /\ UNCHANGED <<hd, er, th, generator, panicked, lastSet, everSet, ta, store, lg, tl>>

\* UseGenerator, UseUUID, UseUUIDv6, UseSnowFlake or a custom generator
SetGenerator ==
    /\ Quiet
    /\ \E g \in Generators \cup {NoGenerator} :
         LET u == UseGenerator(generator, g)
         IN  /\ generator' = u.slot
             /\ panicked' = u.panic
             /\ lastSet' = g
             /\ everSet' = (everSet \/ ~u.panic)
    /\ UNCHANGED <<as, at, nc, mw, hd, er, th, calls, ta, store, lg, tl>>

MiddlewareBegin ==
    /\ Quiet
    /\ \E c \in Configs, h \in HeaderIDs, ref \in Referers, b \in Streams :
         mw' = [MwIdle EXCEPT !.pc = "EnsureRequest",
                              !.given = c,
                              !.config = NewAssertionMiddleware(c),
                              !.r = [XRequestID |-> h, Referer |-> ref,
                                     ctxID |-> "", Body |-> b]]
    /\ as' = AsIdle /\ at' = AtIdle /\ nc' = NcIdle /\ calls' = <<>>
    /\ UNCHANGED <<hd, er, th, generator, panicked, lastSet, everSet, ta, store, lg, tl>>

MiddlewareEnsureRequest ==
    /\ mw.pc = "EnsureRequest"
    /\ \E id \in NextIDs, ge \in {NilErr, GenErr} :
         LET e == EnsureRequest(generator, mw.r, id, ge)
         IN  /\ e.generated = 1 \/ (id = "" /\ ge = NilErr)
             /\ mw' = Handler_EnsureRequest(mw, e)
             /\ calls' = (IF e.generated = 1
                          THEN <<Call("NextID", <<>>, <<id, ge>>)>>
                          ELSE <<>>)
                         \o <<Call("EnsureRequest", <<mw.r.XRequestID>>, <<e.id, e.err>>)>>
    /\ UNCHANGED <<as, at, nc, hd, er, th, generator, panicked, lastSet, everSet, ta, store, lg, tl>>

MiddlewareReadBody ==
    /\ mw.pc = "ReadBody"
    /\ mw' = Handler_ReadBody(mw)
    /\ calls' = IF mw.r.Body.present
                THEN LET rd == ReadAllLimited(mw.r.Body, Inc64(mw.config.BodyLimit))
                     IN  Append(calls, Call("io.ReadAll", <<Inc64(mw.config.BodyLimit), mw.r.Body>>,
                                            <<rd.data, rd.err>>))
                ELSE calls
    /\ UNCHANGED <<as, at, nc, hd, er, th, generator, panicked, lastSet, everSet, ta, store, lg, tl>>

MiddlewareVerify ==
    /\ mw.pc = "Verify"
    /\ \E e \in {NilErr} \cup AdapterErrs, k \in 0..Len(mw.r.Body.data) :
         /\ mw' = Handler_Verify(Adapter_ReadsBody(mw, k), e)
         /\ calls' = Append(calls, Call("Adapter.Verify", <<mw.r.ctxID, mw.body, k>>, <<e>>))
    /\ UNCHANGED <<as, at, nc, hd, er, th, generator, panicked, lastSet, everSet, ta, store, lg, tl>>

MiddlewareNext ==
    /\ mw.pc = "next"
    /\ \E st \in {StatusOK} :
         /\ mw' = Handler_Next(mw, st)
         /\ calls' = Append(calls, Call("next.ServeHTTP", <<mw.r.ctxID, mw.r.Body.data>>, <<st>>))
    /\ UNCHANGED <<as, at, nc, hd, er, th, generator, panicked, lastSet, everSet, ta, store, lg, tl>>

\* a direct call of requestid.EnsureRequest(r)
EnsureRequestCall ==
    /\ Quiet
    /\ \E h \in HeaderIDs, c \in CtxIDs, id \in NextIDs, ge \in {NilErr, GenErr} :
         LET r == [XRequestID |-> h, ctxID |-> c]
             e == EnsureRequest(generator, r, id, ge)
             fx == EnsureRequest_Effects(generator, r, e)
         IN  /\ e.generated = 1 \/ (id = "" /\ ge = NilErr)
             /\ er' = [pc |-> "done", r |-> r, slot |-> generator, out |-> e,
                       rAfter |-> fx.r, slotAfter |-> fx.slot]
             /\ generator' = fx.slot
             /\ calls' = EnsureCalls(e, h, id, ge)
    /\ UNCHANGED <<as, at, nc, mw, hd, th, panicked, lastSet, everSet, ta, store, lg, tl>>

HandlerVerifyBegin ==
    /\ Quiet
    /\ \E h \in HeaderIDs :
         hd' = [HdIdle EXCEPT !.pc = "Verify_getLogger", !.endpoint = "Verify",
                              !.r.XRequestID = h]
    /\ calls' = <<>>
    /\ UNCHANGED <<as, at, nc, mw, er, th, generator, panicked, lastSet, everSet, ta, store, lg, tl>>

HandlerVerifyGetLogger ==
    /\ hd.pc = "Verify_getLogger"
    /\ \E id \in NextIDs, ge \in {NilErr, GenErr} :
         LET e == EnsureRequest(generator, hd.r, id, ge)
         IN  /\ e.generated = 1 \/ (id = "" /\ ge = NilErr)
             /\ hd' = AppAttestHandler_Verify_getLogger(hd, e)
             /\ calls' = calls \o EnsureCalls(e, hd.r.XRequestID, id, ge)
    /\ UNCHANGED <<as, at, nc, mw, er, th, generator, panicked, lastSet, everSet, ta, store, lg, tl>>

\* h.VerifyHooks.Setup(r), h.adapter.Verify and what follows it
HandlerVerify ==
    /\ hd.pc = "Verify"
    /\ \E e \in {NilErr} \cup HandlerErrs :
         /\ hd' = AppAttestHandler_Verify(hd, e)
         /\ calls' = calls \o
              <<Call("VerifyHooks.Setup", <<hd.r.ctxID>>, <<>>),
                Call("AttestationAdapter.Verify", <<hd.r.ctxID>>, <<e>>)>>
              \o HookCall(hd')
    /\ UNCHANGED <<as, at, nc, mw, er, th, generator, panicked, lastSet, everSet, ta, store, lg, tl>>

HandlerNewChallengeBegin ==
    /\ Quiet
    /\ \E h \in HeaderIDs :
         hd' = [HdIdle EXCEPT !.pc = "NewChallenge_getLogger",
                              !.endpoint = "NewChallenge", !.r.XRequestID = h]
    /\ calls' = <<>>
    /\ UNCHANGED <<as, at, nc, mw, er, th, generator, panicked, lastSet, everSet, ta, store, lg, tl>>

HandlerNewChallengeGetLogger ==
    /\ hd.pc = "NewChallenge_getLogger"
    /\ \E id \in NextIDs, ge \in {NilErr, GenErr} :
         LET e == EnsureRequest(generator, hd.r, id, ge)
         IN  /\ e.generated = 1 \/ (id = "" /\ ge = NilErr)
             /\ hd' = AppAttestHandler_NewChallenge_getLogger(hd, e)
             /\ calls' = calls \o EnsureCalls(e, hd.r.XRequestID, id, ge)
    /\ UNCHANGED <<as, at, nc, mw, er, th, generator, panicked, lastSet, everSet, ta, store, lg, tl>>

\* h.NewChallengeHooks.Setup(r), h.adapter.NewChallenge and what follows it
HandlerNewChallenge ==
    /\ hd.pc = "NewChallenge"
    /\ \E c \in NewChallenges, e \in {NilErr} \cup HandlerErrs :
         /\ hd' = AppAttestHandler_NewChallenge(hd, c, e)
         /\ calls' = calls \o
              <<Call("NewChallengeHooks.Setup", <<hd.r.ctxID>>, <<>>),
                Call("AttestationAdapter.NewChallenge", <<hd.r.ctxID>>, <<c, e>>)>>
              \o HookCall(hd')
    /\ UNCHANGED <<as, at, nc, mw, er, th, generator, panicked, lastSet, everSet, ta, store, lg, tl>>

\* ------------------------------------------------ logger (logger.go)
\* how many lines the threads write altogether
MaxLines == 2

LogThreads == {1, 2}

Levels == {"Debugf", "Infof", "Warningf", "Errorf", "Criticalf"}

\* the argument of SetPrefix in each level method
LevelTag(level) ==
    CASE level = "Debugf" -> "[Debug]"
      [] level = "Infof" -> "[Info]"
      [] level = "Warningf" -> "[Warning]"
      [] level = "Errorf" -> "[Error]"
      [] level = "Criticalf" -> "[Critical]"

\* log.New(&buf, "", 0): no prefix, nothing written
LgInit == [prefix |-> "", out |-> <<>>]

\* level: the level method the thread is in
TlIdle == [pc |-> "idle", level |-> "none"]

\* log.Logger.SetPrefix(tag): one synchronised store of the shared prefix
StdLogger_SetPrefix(l, level) == [l EXCEPT !.prefix = LevelTag(level)]

\* log.Logger.Printf(format, args...): one synchronised write of a line that
\* begins with the prefix the logger holds at that moment
StdLogger_Printf(l, level) ==
    [l EXCEPT !.out = Append(l.out, [prefix |-> l.prefix, by |-> level])]

Init ==
    /\ lg = LgInit
    /\ tl = [t \in LogThreads |-> TlIdle]
    /\ mw = MwIdle
    /\ generator = NoGenerator
    /\ panicked = FALSE
    /\ lastSet = NoGenerator
    /\ everSet = FALSE
    /\ hd = HdIdle
    /\ er = ErIdle
    /\ th = [t \in Readers |-> RdIdle]
    /\ ta = [t \in Threads |-> AsIdle]
    /\ store = StoreInit
    /\ as = AsIdle
    /\ at = AtIdle
    /\ nc = NcIdle
    /\ calls = <<>>

Next ==
    \/ AssertionVerifyBegin
    \/ AssertionParseRequest
    \/ AssertionPublicKeyAndCounter
    \/ AssertionAssignedChallenge
    \/ AssertionServiceVerify
    \/ AssertionUpdateCounter
    \/ AttestationVerifyBegin
    \/ AttestationExtractData
    \/ AttestationIsChallengeAssigned
    \/ AttestationServiceVerify
    \/ AttestationStoreResult
    \/ AttestationNewChallenge
    \/ SetGenerator
    \/ MiddlewareBegin
    \/ MiddlewareEnsureRequest
    \/ MiddlewareReadBody
    \/ MiddlewareVerify
    \/ MiddlewareNext
    \/ EnsureRequestCall
    \/ HandlerVerifyBegin
    \/ HandlerVerifyGetLogger
    \/ HandlerVerify
    \/ HandlerNewChallengeBegin
    \/ HandlerNewChallengeGetLogger
    \/ HandlerNewChallenge
    \/ Return

Spec == Init /\ [][Next]_vars

\* ------------------ request threads inside EnsureRequest, and UseGenerator
\* a request thread enters EnsureRequest(r)
ReaderBegin(t) ==
    /\ ~panicked
    /\ th[t].pc = "idle"
    /\ \E h \in HeaderIDs :
         th' = [th EXCEPT ![t] = [RdIdle EXCEPT !.pc = "Load", !.r.XRequestID = h,
                                               !.seen = {generator}]]
    /\ UNCHANGED <<as, at, nc, mw, hd, er, generator, panicked, lastSet, everSet, calls, ta, store, lg, tl>>

ReaderLoad(t) ==
    /\ ~panicked
    /\ th[t].pc = "Load"
    /\ th' = [th EXCEPT ![t] = EnsureRequest_Load(th[t], generator)]
    /\ UNCHANGED <<as, at, nc, mw, hd, er, generator, panicked, lastSet, everSet, calls, ta, store, lg, tl>>

ReaderHeader(t) ==
    /\ ~panicked
    /\ th[t].pc = "Header"
    /\ th' = [th EXCEPT ![t] = EnsureRequest_Header(th[t])]
    /\ UNCHANGED <<as, at, nc, mw, hd, er, generator, panicked, lastSet, everSet, calls, ta, store, lg, tl>>

ReaderNextID(t) ==
    /\ ~panicked
    /\ th[t].pc = "NextID"
    /\ \E id \in NextIDs, ge \in {NilErr, GenErr} :
         /\ ge = NilErr \/ id = ""
         /\ th' = [th EXCEPT ![t] = EnsureRequest_NextID(th[t], id, ge)]
    /\ UNCHANGED <<as, at, nc, mw, hd, er, generator, panicked, lastSet, everSet, calls, ta, store, lg, tl>>

ReaderAttach(t) ==
    /\ ~panicked
    /\ th[t].pc = "Attach"
    /\ th' = [th EXCEPT ![t] = EnsureRequest_Attach(th[t])]
    /\ UNCHANGED <<as, at, nc, mw, hd, er, generator, panicked, lastSet, everSet, calls, ta, store, lg, tl>>

\* EnsureRequest has returned to the request thread
ReaderReturn(t) ==
    /\ ~panicked
    /\ th[t].pc = "done"
    /\ th' = [th EXCEPT ![t] = RdIdle]
    /\ UNCHANGED <<as, at, nc, mw, hd, er, generator, panicked, lastSet, everSet, calls, ta, store, lg, tl>>

\* the next statement of thread t inside EnsureRequest
ReaderStep(t) ==
    ReaderLoad(t) \/ ReaderHeader(t) \/ ReaderNextID(t) \/ ReaderAttach(t)

\* another thread calls UseGenerator(g) while requests are being served
WriterStore ==
    /\ ~panicked
    /\ \E g \in Generators \cup {NoGenerator} :
         LET u == UseGenerator(generator, g)
         IN  /\ generator' = u.slot
             /\ panicked' = u.panic
             /\ lastSet' = g
             /\ everSet' = (everSet \/ ~u.panic)
             /\ th' = [t \in Readers |->
                         IF th[t].pc \in {"idle", "done"} THEN th[t]
                         ELSE [th[t] EXCEPT !.seen = th[t].seen \cup {u.slot}]]
    /\ UNCHANGED <<as, at, nc, mw, hd, er, calls, ta, store, lg, tl>>

NextConc ==
    \/ \E t \in Readers : ReaderBegin(t)
    \/ \E t \in Readers : ReaderLoad(t)
    \/ \E t \in Readers : ReaderHeader(t)
    \/ \E t \in Readers : ReaderNextID(t)
    \/ \E t \in Readers : ReaderAttach(t)
    \/ \E t \in Readers : ReaderReturn(t)
    \/ WriterStore

SpecConc == Init /\ [][NextConc]_vars

\* -------- request threads inside assertionAdapter.Verify, one device/session
ThreadBegin(t) ==
    /\ ta[t].pc = "idle"
    /\ \E b \in {<<>>, <<1>>} :
         ta' = [ta EXCEPT ![t] = [AsIdle EXCEPT !.pc = "ParseRequest", !.body = b]]
    /\ UNCHANGED <<as, at, nc, mw, hd, er, th, generator, panicked, lastSet, everSet, store, calls, lg, tl>>

ThreadParseRequest(t) ==
    /\ ta[t].pc = "ParseRequest"
    /\ \E c \in Challenges, e \in {NilErr, CollabErr} :
         ta' = [ta EXCEPT ![t] = assertionAdapter_ParseRequest(ta[t], "assertion", c, e)]
    /\ UNCHANGED <<as, at, nc, mw, hd, er, th, generator, panicked, lastSet, everSet, store, calls, lg, tl>>

\* the plugin returns the device's key and the counter it has persisted
ThreadPublicKeyAndCounter(t) ==
    /\ ta[t].pc = "PublicKeyAndCounter"
    /\ ta' = [ta EXCEPT ![t] =
                assertionAdapter_PublicKeyAndCounter(ta[t], "key", store.counter, NilErr)]
    /\ UNCHANGED <<as, at, nc, mw, hd, er, th, generator, panicked, lastSet, everSet, store, calls, lg, tl>>

\* the plugin returns the challenge now assigned to the session
ThreadAssignedChallenge(t) ==
    /\ ta[t].pc = "AssignedChallenge"
    /\ ta' = [ta EXCEPT ![t] =
                assertionAdapter_AssignedChallenge(ta[t], store.challenge, NilErr)]
    /\ UNCHANGED <<as, at, nc, mw, hd, er, th, generator, panicked, lastSet, everSet, store, calls, lg, tl>>

\* a.NewService(...) and service.Verify on an assertion whose counter is n
ThreadServiceVerify(t) ==
    /\ ta[t].pc = "Verify"
    /\ \E n \in Counters :
         LET v == ServiceVerify(ta[t], n)
         IN  ta' = [ta EXCEPT ![t] = assertionAdapter_Verify(ta[t], v[1], v[2])]
    /\ UNCHANGED <<as, at, nc, mw, hd, er, th, generator, panicked, lastSet, everSet, store, calls, lg, tl>>

\* the plugin persists the counter it is handed
ThreadUpdateCounter(t) ==
    /\ ta[t].pc = "UpdateCounter"
    /\ ta' = [ta EXCEPT ![t] = assertionAdapter_UpdateCounter(ta[t], NilErr)]
    /\ store' = [store EXCEPT !.counter = assertionAdapter_UpdateCounterArgs(ta[t])[1]]
    /\ UNCHANGED <<as, at, nc, mw, hd, er, th, generator, panicked, lastSet, everSet, calls, lg, tl>>

ThreadReturn(t) ==
    /\ ta[t].pc = "done"
    /\ ta' = [ta EXCEPT ![t] = AsIdle]
    /\ UNCHANGED <<as, at, nc, mw, hd, er, th, generator, panicked, lastSet, everSet, store, calls, lg, tl>>

\* another request of the session is issued a new challenge, which replaces
\* the one assigned
SessionNewChallenge ==
    /\ \E c \in Challenges \ {"", store.challenge} :
         store' = [store EXCEPT !.challenge = c]
    /\ UNCHANGED <<as, at, nc, mw, hd, er, th, generator, panicked, lastSet, everSet, ta, calls, lg, tl>>

NextAssert ==
    \/ \E t \in Threads : ThreadBegin(t)
    \/ \E t \in Threads : ThreadParseRequest(t)
    \/ \E t \in Threads : ThreadPublicKeyAndCounter(t)
    \/ \E t \in Threads : ThreadAssignedChallenge(t)
    \/ \E t \in Threads : ThreadServiceVerify(t)
    \/ \E t \in Threads : ThreadUpdateCounter(t)
    \/ \E t \in Threads : ThreadReturn(t)
    \/ SessionNewChallenge

SpecAssert == Init /\ [][NextAssert]_vars

\* ---------------------------------------------------------- trace helpers
\* ---- threads calling level methods of one StdLogger
LogBegin(t) ==
    /\ tl[t].pc = "idle"
    /\ Len(lg.out) + Cardinality({u \in LogThreads : tl[u].pc # "idle"}) < MaxLines
    /\ \E level \in Levels :
         tl' = [tl EXCEPT ![t] = [pc |-> "SetPrefix", level |-> level]]
    /\ UNCHANGED <<as, at, nc, mw, hd, er, th, generator, panicked, lastSet, everSet, ta, store, calls, lg>>

LogSetPrefix(t) ==
    /\ tl[t].pc = "SetPrefix"
    /\ lg' = StdLogger_SetPrefix(lg, tl[t].level)
    /\ tl' = [tl EXCEPT ![t].pc = "Printf"]
    /\ UNCHANGED <<as, at, nc, mw, hd, er, th, generator, panicked, lastSet, everSet, ta, store, calls>>

LogPrintf(t) ==
    /\ tl[t].pc = "Printf"
    /\ lg' = StdLogger_Printf(lg, tl[t].level)
    /\ tl' = [tl EXCEPT ![t] = TlIdle]
    /\ UNCHANGED <<as, at, nc, mw, hd, er, th, generator, panicked, lastSet, everSet, ta, store, calls>>

\* the output is read and a fresh logger is made
LogReset ==
    /\ \A t \in LogThreads : tl[t].pc = "idle"
    /\ lg.out # <<>>
    /\ lg' = LgInit
    /\ UNCHANGED <<as, at, nc, mw, hd, er, th, generator, panicked, lastSet, everSet, ta, store, calls, tl>>

NextLog ==
    \/ \E t \in LogThreads : LogBegin(t)
    \/ \E t \in LogThreads : LogSetPrefix(t)
    \/ \E t \in LogThreads : LogPrintf(t)
    \/ LogReset

SpecLog == Init /\ [][NextLog]_vars

FnAt(i) == IF i <= Len(calls) THEN calls[i].fn ELSE "none"

Called(fn) == \E i \in 1..Len(calls) : calls[i].fn = fn

CountCalls(fn) == Cardinality({i \in 1..Len(calls) : calls[i].fn = fn})

\* the error a call returned: the last component of its results
CallErr(c) == IF Len(c.res) = 0 THEN NilErr ELSE c.res[Len(c.res)]

\* the sentinels an error matches under errors.Is
KindsOf(err) == {s \in Sentinels : Is(err, s)}

AssertionRunning == as.pc # "idle"

AttestationRunning == at.pc # "idle"

\* ----------------------------------------------------------------- claims

\* C1: the wrapped handler is invoked if and only if EnsureRequest succeeded,
\* the body (if any) was read without error and within BodyLimit, and the
\* adapter's Verify returned no error; it is never invoked after any error.
C1_EnsureOK ==
    \E i \in 1..Len(calls) : calls[i].fn = "EnsureRequest" /\ CallErr(calls[i]) = NilErr

C1_BodyOK ==
    \A i \in 1..Len(calls) :
        calls[i].fn = "io.ReadAll" =>
            /\ CallErr(calls[i]) = NilErr
            /\ Len(calls[i].res[1]) <= mw.config.BodyLimit

C1_VerifyOK ==
    \E i \in 1..Len(calls) : calls[i].fn = "Adapter.Verify" /\ CallErr(calls[i]) = NilErr

C1_NextIffVerified ==
    /\ mw.pc = "done" =>
         (Called("next.ServeHTTP") <=> (C1_EnsureOK /\ C1_BodyOK /\ C1_VerifyOK))
    /\ Called("next.ServeHTTP") => mw.nextCalled = 1 /\ mw.err = NilErr
    /\ mw.err # NilErr => mw.nextCalled = 0 /\ mw.pc = "done"

C1_Witness ==
    /\ mw.pc = "done"
    /\ mw.nextCalled = 1
    /\ Called("io.ReadAll")
    /\ Len(mw.body) = 2

\* C2 as stated: whenever PublicKeyAndCounter returns a nil key, whatever
\* error it returns with it, Verify returns AttestationRequired.
C2_Original ==
    \A i \in 1..Len(calls) :
        (AssertionRunning /\ calls[i].fn = "PublicKeyAndCounter" /\ calls[i].res[1] = Nil)
            => as.pc = "done" /\ as.ret = ErrAttestationRequired

\* C2 amended: whenever PublicKeyAndCounter returns a nil key and no error,
\* Verify returns AttestationRequired whatever else it returned and whatever
\* the body; with a nil key (with or without error) PublicKeyAndCounter is
\* the last collaborator call: AssignedChallenge, NewService, Verify and
\* UpdateCounter are not called.
C2_AbsentKeyNoError ==
    \A i \in 1..Len(calls) :
        (AssertionRunning /\ calls[i].fn = "PublicKeyAndCounter" /\ calls[i].res[1] = Nil)
            => /\ as.pc = "done"
               /\ i = Len(calls)
               /\ ~Called("AssignedChallenge") /\ ~Called("NewService")
               /\ ~Called("Verify") /\ ~Called("UpdateCounter")
               /\ CallErr(calls[i]) = NilErr => as.ret = ErrAttestationRequired

C2_Witness ==
    /\ as.pc = "done"
    /\ Len(calls) = 2
    /\ calls[2].fn = "PublicKeyAndCounter"
    /\ calls[2].res = <<Nil, 1, NilErr>>
    /\ as.ret = ErrAttestationRequired

\* C3: when the key is present and AssignedChallenge returns "" without
\* error, Verify returns NewChallengeNeeded and neither NewService,
\* VerificationService.Verify nor UpdateCounter is called.
C3_EmptyChallenge ==
    \A i \in 1..Len(calls) :
        (AssertionRunning /\ calls[i].fn = "AssignedChallenge"
            /\ calls[i].res = <<"", NilErr>> /\ as.pubkey # Nil)
            => /\ as.pc = "done"
               /\ as.ret = ErrNewChallenge
               /\ ~Called("NewService") /\ ~Called("Verify") /\ ~Called("UpdateCounter")

C3_Witness ==
    /\ as.pc = "done"
    /\ as.pubkey = "pubkey"
    /\ Len(calls) = 3
    /\ calls[3].fn = "AssignedChallenge"
    /\ calls[3].res = <<"", NilErr>>
    /\ as.ret = ErrNewChallenge

\* C4: assertionAdapter.Verify returns exactly the outcome of the reference
\* table evaluated in step order on what the collaborators returned.
C4_Missing == [chain |-> <<"step not run">>, text |-> <<>>]

C4_Table ==
    IF FnAt(1) # "ParseRequest" THEN C4_Missing
    ELSE IF CallErr(calls[1]) # NilErr THEN ErrBadRequest
    ELSE IF FnAt(2) # "PublicKeyAndCounter" THEN C4_Missing
    ELSE IF CallErr(calls[2]) # NilErr THEN ErrInternal
    ELSE IF calls[2].res[1] = Nil THEN ErrAttestationRequired
    ELSE IF FnAt(3) # "AssignedChallenge" THEN C4_Missing
    ELSE IF CallErr(calls[3]) # NilErr THEN ErrInternal
    ELSE IF calls[3].res[1] = "" THEN ErrNewChallenge
    ELSE IF FnAt(5) # "Verify" THEN C4_Missing
    ELSE IF CallErr(calls[5]) # NilErr THEN ErrBadRequest
    ELSE IF FnAt(6) # "UpdateCounter" THEN C4_Missing
    ELSE IF CallErr(calls[6]) # NilErr THEN ErrInternal
    ELSE NilErr

C4_ReferenceTable == as.pc = "done" => as.ret = C4_Table

C4_Witness ==
    /\ as.pc = "done"
    /\ Len(calls) = 6
    /\ CallErr(calls[6]) = ErrNewChallenge
    /\ as.ret = ErrInternal

\* C5: on success the service was built from exactly the (assignedChallenge,
\* publicKey, counter) the plugin returned in this call, Verify was given the
\* client challenge of ParseRequest and the raw body, and UpdateCounter was
\* called exactly once, with the counter Verify returned.
C5_SuccessArguments ==
    (as.pc = "done" /\ as.ret = NilErr) =>
        /\ Len(calls) = 6
        /\ calls[4].fn = "NewService"
        /\ calls[4].args = <<calls[3].res[1], calls[2].res[1], calls[2].res[2]>>
        /\ calls[5].fn = "Verify"
        /\ calls[5].args = <<calls[1].res[1], calls[1].res[2], as.body>>
        /\ CountCalls("UpdateCounter") = 1
        /\ calls[6].fn = "UpdateCounter"
        /\ calls[6].args = <<calls[5].res[1]>>

C5_Witness ==
    /\ as.pc = "done"
    /\ as.ret = NilErr
    /\ as.counter = 1
    /\ as.cnt = 42
    /\ as.challenge = "challenge"
    /\ as.assignedChallenge = "assigned"
    /\ Len(as.body) = 2
    /\ calls[6].args = <<42>>

\* C6: attestationAdapter.Verify returns an error matching exactly the
\* reference table evaluated in step order: ExtractData fails -> BadRequest;
\* IsChallengeAssigned fails -> Internal; not assigned -> NewChallengeNeeded;
\* service Verify fails -> BadRequest; StoreResult fails -> Internal;
\* otherwise no error.
C6_Table ==
    IF FnAt(1) # "ExtractData" THEN {C4_Missing}
    ELSE IF CallErr(calls[1]) # NilErr THEN {ErrBadRequest}
    ELSE IF FnAt(2) # "IsChallengeAssigned" THEN {C4_Missing}
    ELSE IF CallErr(calls[2]) # NilErr THEN {ErrInternal}
    ELSE IF ~calls[2].res[1] THEN {ErrNewChallenge}
    ELSE IF FnAt(3) # "Verify" THEN {C4_Missing}
    ELSE IF CallErr(calls[3]) # NilErr THEN {ErrBadRequest}
    ELSE IF FnAt(4) # "StoreResult" THEN {C4_Missing}
    ELSE IF CallErr(calls[4]) # NilErr THEN {ErrInternal}
    ELSE {}

C6_AttestationTable ==
    at.pc = "done" =>
        /\ KindsOf(at.ret) = C6_Table
        /\ at.ret = NilErr <=> C6_Table = {}

C6_Witness ==
    /\ at.pc = "done"
    /\ Len(calls) = 2
    /\ calls[2].res = <<FALSE, CollabErr>>
    /\ KindsOf(at.ret) = {ErrInternal}

\* C7: when IsChallengeAssigned returns false without error, Verify returns
\* NewChallengeNeeded and neither the service's Verify nor StoreResult is
\* called.
C7_NotAssigned ==
    \A i \in 1..Len(calls) :
        (AttestationRunning /\ calls[i].fn = "IsChallengeAssigned"
            /\ calls[i].res = <<FALSE, NilErr>>)
            => /\ at.pc = "done"
               /\ at.ret = ErrNewChallenge
               /\ ~Called("Verify") /\ ~Called("StoreResult")

C7_Witness ==
    /\ at.pc = "done"
    /\ Len(calls) = 2
    /\ calls[2].fn = "IsChallengeAssigned"
    /\ calls[2].res = <<FALSE, NilErr>>
    /\ at.ret = ErrNewChallenge

\* C8: when ExtractData succeeds, a challenge is assigned and the service's
\* Verify succeeds, StoreResult is called exactly once, the request's result
\* slot then already holding the result Verify returned, and Verify returns
\* no error when StoreResult succeeds.
C8_StoreResultOnce ==
    (at.pc = "done" /\ Len(calls) >= 3 /\ calls[3].fn = "Verify"
        /\ CallErr(calls[3]) = NilErr)
        => /\ CountCalls("StoreResult") = 1
           /\ calls[4].fn = "StoreResult"
           /\ calls[4].args = <<calls[3].res[1]>>
           /\ at.Result = calls[3].res[1]
           /\ CallErr(calls[4]) = NilErr => at.ret = NilErr

C8_Witness ==
    /\ at.pc = "done"
    /\ at.Result0 = "oldResult"
    /\ Len(calls) = 4
    /\ calls[3].res = <<"result", NilErr>>
    /\ calls[4].args = <<"result">>
    /\ at.ret = NilErr

\* C9: every error returned by attestationAdapter.Verify,
\* attestationAdapter.NewChallenge and assertionAdapter.Verify matches
\* exactly one of the four sentinels, and its Unwrap chain holds nothing but
\* that sentinel and the adapter's own wrapper: no collaborator error value.
C9_Returned(f) ==
    (f.pc = "done" /\ f.ret # NilErr) =>
        /\ Cardinality(KindsOf(f.ret)) = 1
        /\ \A i \in 1..Len(f.ret.chain) :
              \/ f.ret.chain[i] = "wrapError"
              \/ \E s \in Sentinels : f.ret.chain[i] = s.chain[1]

C9_ClosedErrorSet == C9_Returned(as) /\ C9_Returned(at) /\ C9_Returned(nc)

C9_Witness ==
    /\ nc.pc = "done"
    /\ calls[1].res = <<"mock-challenge", ErrNewChallenge>>
    /\ KindsOf(nc.ret) = {ErrInternal}

\* C10: in both flows each collaborator operation is called at most once, in
\* step order, and the call that fails or short-circuits is the last one:
\* the flow is then done and nothing is retried.
C10_AssertionOrder ==
    <<"ParseRequest", "PublicKeyAndCounter", "AssignedChallenge",
      "NewService", "Verify", "UpdateCounter">>

C10_AttestationOrder ==
    <<"ExtractData", "IsChallengeAssigned", "Verify", "StoreResult">>

C10_Stops(c) ==
    \/ CallErr(c) # NilErr
    \/ c.fn = "PublicKeyAndCounter" /\ c.res[1] = Nil
    \/ c.fn = "AssignedChallenge" /\ c.res[1] = ""
    \/ c.fn = "IsChallengeAssigned" /\ ~c.res[1]

C10_Linear(pc, order) ==
    /\ Len(calls) <= Len(order)
    /\ \A i \in 1..Len(calls) : calls[i].fn = order[i]
    /\ \A i \in 1..Len(calls) :
          C10_Stops(calls[i]) => i = Len(calls) /\ pc = "done"

C10_TerminalNoRetry ==
    /\ AssertionRunning => C10_Linear(as.pc, C10_AssertionOrder)
    /\ AttestationRunning => C10_Linear(at.pc, C10_AttestationOrder)

C10_Witness ==
    /\ at.pc = "done"
    /\ Len(calls) = 3
    /\ CallErr(calls[3]) = CollabErr

\* C11: attestationAdapter.NewChallenge calls the plugin's NewChallenge
\* exactly once; when the plugin succeeds the adapter returns the plugin's
\* string unchanged with a nil error, and when the plugin fails, whatever the
\* failure, the adapter returns an error of kind Internal and no other kind.
C11_NewChallengeDelegates ==
    nc.pc = "done" =>
        /\ Len(calls) = 1
        /\ calls[1].fn = "NewChallenge"
        /\ CallErr(calls[1]) = NilErr =>
              /\ nc.ret = NilErr
              /\ nc.challenge = calls[1].res[1]
        /\ CallErr(calls[1]) # NilErr =>
              /\ nc.ret # NilErr
              /\ KindsOf(nc.ret) = {ErrInternal}

C11_Witness ==
    /\ nc.pc = "done"
    /\ calls[1].res = <<"mock-challenge", ErrBadRequest>>
    /\ Is(nc.ret, ErrInternal)

\* the response of the challenge endpoint's logic, read off the calls it made
\* from position j, its EnsureRequest, on
C12_Issued(j) ==
    /\ calls[j].args = <<hd.r.XRequestID>>
    /\ IF CallErr(calls[j]) # NilErr
       THEN /\ Len(calls) = j
            /\ hd.w = HttpError(StatusText(StatusInternalServerError), StatusInternalServerError)
       ELSE /\ Len(calls) = j + 3
            /\ calls[j + 1].fn = "NewChallengeHooks.Setup"
            /\ calls[j + 2].fn = "AttestationAdapter.NewChallenge"
            /\ LET c == calls[j + 2].res[1]
                   e == CallErr(calls[j + 2])
               IN  IF e = NilErr
                   THEN /\ calls[j + 3].fn = "NewChallengeHooks.Success"
                        /\ hd.w = WriteResponse(StatusOK, c)
                   ELSE /\ calls[j + 3].fn = "NewChallengeHooks.Failed"
                        /\ hd.w = IF Is(e, ErrBadRequest)
                                  THEN HttpError(StatusText(StatusBadRequest), StatusBadRequest)
                                  ELSE HttpError(StatusText(StatusInternalServerError),
                                                 StatusInternalServerError)

\* C12: when the handler's adapter.Verify returns an error matching
\* NewChallengeNeeded at the verify endpoint, neither VerifyHooks.Failed nor
\* VerifyHooks.Success runs; the challenge endpoint's logic runs next for the
\* same request, and the response is the one that logic produces: 200 with
\* the raw challenge as body after NewChallengeHooks.Success, 400 or 500
\* after NewChallengeHooks.Failed.
C12_Reentry ==
    \A i \in 1..Len(calls) :
        (/\ hd.pc # "idle"
         /\ calls[i].fn = "AttestationAdapter.Verify"
         /\ Is(CallErr(calls[i]), ErrNewChallenge)) =>
            /\ ~Called("VerifyHooks.Failed")
            /\ ~Called("VerifyHooks.Success")
            /\ hd.pc \in {"NewChallenge_getLogger", "NewChallenge", "done"}
            /\ hd.pc = "NewChallenge_getLogger" => Len(calls) = i
            /\ hd.pc \in {"NewChallenge", "done"} =>
                 \E j \in (i + 1)..Len(calls) : calls[j].fn = "EnsureRequest"
            /\ hd.pc = "done" =>
                 \E j \in (i + 1)..Len(calls) :
                     calls[j].fn = "EnsureRequest" /\ C12_Issued(j)

C12_Witness ==
    /\ hd.pc = "done"
    /\ hd.endpoint = "Verify"
    /\ \E i \in 1..Len(calls) :
          /\ calls[i].fn = "AttestationAdapter.Verify"
          /\ CallErr(calls[i]) = Errorf(ErrNewChallenge, ": some context", NilErr)
    /\ Called("NewChallengeHooks.Success")
    /\ hd.w = WriteResponse(StatusOK, "mock-challenge")

\* the response to the adapter error e under the default Failed hooks, with
\* and without the exception for NewChallengeNeeded
C13_Status(e) == IF e = NilErr THEN StatusOK
                 ELSE IF Is(e, ErrBadRequest) THEN StatusBadRequest
                 ELSE StatusInternalServerError

C13_Challenge ==
    \A i \in 1..Len(calls) :
        (hd.pc = "done" /\ calls[i].fn = "AttestationAdapter.NewChallenge") =>
            /\ hd.w.status = C13_Status(CallErr(calls[i]))
            /\ CallErr(calls[i]) = NilErr => hd.w.text = calls[i].res[1]

\* C13 as stated: with the default hooks the verify endpoint answers 200 on
\* success, 400 when the adapter error is BadRequest and 500 for every other
\* error; the challenge endpoint answers 200 with the raw challenge as body,
\* 400 for BadRequest and 500 for every other error.
C13_Original ==
    /\ \A i \in 1..Len(calls) :
          (hd.pc = "done" /\ calls[i].fn = "AttestationAdapter.Verify") =>
              hd.w.status = C13_Status(CallErr(calls[i]))
    /\ C13_Challenge

\* C13 amended: as stated, except that an adapter error matching
\* NewChallengeNeeded at the verify endpoint is not answered by a Verify hook
\* (the response is the challenge endpoint's).
C13_DefaultHooks ==
    /\ \A i \in 1..Len(calls) :
          (/\ hd.pc = "done"
           /\ calls[i].fn = "AttestationAdapter.Verify"
           /\ ~Is(CallErr(calls[i]), ErrNewChallenge)) =>
              /\ hd.w.status = C13_Status(CallErr(calls[i]))
              /\ Len(calls) = i + 1
              /\ calls[i + 1].fn = IF CallErr(calls[i]) = NilErr
                                   THEN "VerifyHooks.Success" ELSE "VerifyHooks.Failed"
    /\ C13_Challenge

C13_Witness ==
    /\ hd.pc = "done"
    /\ hd.endpoint = "Verify"
    /\ \E i \in 1..Len(calls) :
          /\ calls[i].fn = "AttestationAdapter.Verify"
          /\ CallErr(calls[i]) = Errorf(ErrBadRequest, ": some context", NilErr)
    /\ hd.w.status = StatusBadRequest

\* C14 as stated: in a handler or middleware request in which ensuring the
\* correlation id fails, the response is 500 and nothing else has happened:
\* no Setup hook, adapter call, body read, Success or Failed hook, or call
\* of the wrapped handler.
C14_Original ==
    \A i \in 1..Len(calls) :
        (/\ hd.pc # "idle" \/ mw.pc # "idle"
         /\ calls[i].fn = "EnsureRequest"
         /\ CallErr(calls[i]) # NilErr) =>
            /\ hd.pc # "idle" =>
                 /\ hd.pc = "done"
                 /\ hd.w = HttpError(StatusText(StatusInternalServerError),
                                     StatusInternalServerError)
            /\ mw.pc # "idle" =>
                 /\ mw.pc = "done"
                 /\ mw.w = HttpError(StatusText(StatusInternalServerError),
                                     StatusInternalServerError)
            /\ \A j \in 1..Len(calls) : calls[j].fn \in {"EnsureRequest", "NextID"}

\* C15 as stated: for a request that carries the X-Request-ID header,
\* EnsureRequest returns that value as the id and attaches it to the context
\* of the returned request without invoking the generator, whether a
\* generator was ever set or not.
C15_Original ==
    (er.pc = "done" /\ er.r.XRequestID # "") =>
        /\ er.out.err = NilErr
        /\ er.out.id = er.r.XRequestID
        /\ FromContext(er.out.r) = er.r.XRequestID
        /\ er.out.generated = 0
        /\ ~Called("NextID")

\* C15 amended: the same once a generator has been set; while none has ever
\* been set the call fails with "generator not initialized", header or not,
\* and still invokes no generator.
C15_HeaderVerbatim ==
    (er.pc = "done" /\ er.r.XRequestID # "") =>
        /\ er.out.generated = 0
        /\ ~Called("NextID")
        /\ everSet =>
              /\ er.out.err = NilErr
              /\ er.out.id = er.r.XRequestID
              /\ FromContext(er.out.r) = er.r.XRequestID
        /\ ~everSet => er.out.err = ErrNotInitialized

C15_Witness ==
    /\ er.pc = "done"
    /\ everSet
    /\ er.r = [XRequestID |-> "external-id-999", ctxID |-> "earlier-id"]
    /\ er.out.id = "external-id-999"
    /\ FromContext(er.out.r) = "external-id-999"

\* C16: for a request without the header, with a generator set, EnsureRequest
\* invokes the generator exactly once; when NextID succeeds its result is the
\* returned id and FromContext on the returned request gives the same value;
\* when NextID fails EnsureRequest fails with that very error.
C16_GeneratedOnce ==
    (er.pc = "done" /\ er.r.XRequestID = "" /\ er.slot # NoGenerator) =>
        /\ er.out.generated = 1
        /\ CountCalls("NextID") = 1
        /\ LET next == calls[1].res[1]
               nerr == CallErr(calls[1])
           IN  /\ calls[1].fn = "NextID"
               /\ nerr = NilErr =>
                    /\ er.out.err = NilErr
                    /\ er.out.id = next
                    /\ FromContext(er.out.r) = next
               /\ nerr # NilErr => er.out.err = nerr

C16_Witness ==
    /\ er.pc = "done"
    /\ er.r = [XRequestID |-> "", ctxID |-> "earlier-id"]
    /\ er.out.generated = 1
    /\ er.out.id = "generated_id"
    /\ FromContext(er.out.r) = "generated_id"

\* C17: a call of EnsureRequest, direct or from the handler or the
\* middleware, fails with "generator not initialized" if and only if no
\* UseGenerator call has ever stored a generator.
C17_NotInitializedIff ==
    /\ er.pc = "done" => (er.out.err = ErrNotInitialized <=> ~everSet)
    /\ \A i \in 1..Len(calls) :
          calls[i].fn = "EnsureRequest" =>
              (CallErr(calls[i]) = ErrNotInitialized <=> ~everSet)

C17_Witness ==
    /\ er.pc = "done"
    /\ ~everSet
    /\ er.r.XRequestID = "external-id-999"
    /\ er.out.err = ErrNotInitialized

\* C18 as stated: after any sequence of UseGenerator calls with generators of
\* any concrete types, the last call has completed normally and the slot
\* read by EnsureRequest holds the generator passed to it.
C18_Original ==
    lastSet \in Generators =>
        /\ ~panicked
        /\ currentGenerator(generator) = lastSet

\* C19: with UseGenerator running concurrently with EnsureRequest calls, each
\* EnsureRequest reads the slot once, the generator it read is one the slot
\* held during the call, the id is generated with that generator and no
\* other, a thread inside EnsureRequest can always take its next step, and
\* once set the slot holds exactly one generator.
C19_AtomicSwap ==
    /\ \A t \in Readers :
          /\ th[t].pc \notin {"idle", "Load"} =>
                /\ th[t].loads = 1
                /\ th[t].gen \in th[t].seen
          /\ th[t].used # NoGenerator => th[t].used = th[t].gen
          /\ (th[t].pc \notin {"idle", "done"} /\ ~panicked) => ENABLED ReaderStep(t)
    /\ everSet => generator \in Generators

C19_Witness ==
    /\ th[1].pc = "done"
    /\ th[1].used \in Generators
    /\ th[1].id = "generated_id"
    /\ generator \in Generators
    /\ generator # th[1].used
    /\ th[2].pc = "NextID"
    /\ th[2].gen = generator

\* C20 as stated: with BodyLimit L, a body of at most L bytes whose read does
\* not fail is accepted and handed complete to the adapter; a body of L+1
\* bytes or more, or one whose read fails, is answered with 400 and neither
\* the adapter nor the wrapped handler is called.
C20_Original ==
    \A i \in 1..Len(calls) :
        (mw.pc # "idle" /\ calls[i].fn = "io.ReadAll") =>
            LET body  == calls[i].args[2]
                fails == body.failAt >= 0 /\ body.failAt <= Len(body.data)
                L     == mw.config.BodyLimit
            IN  IF ~fails /\ Len(body.data) <= L
                THEN /\ mw.pc \in {"Verify", "next"} \/ Called("Adapter.Verify")
                     /\ mw.body = body.data
                     /\ \A j \in 1..Len(calls) :
                           calls[j].fn = "Adapter.Verify" => calls[j].args[2] = body.data
                ELSE /\ mw.pc = "done"
                     /\ mw.w = HttpError(StatusText(StatusBadRequest), StatusBadRequest)
                     /\ ~Called("Adapter.Verify")
                     /\ ~Called("next.ServeHTTP")

\* the error the middleware's adapter returned in the finished request
C21_Outcome(e) ==
    /\ mw.pc = "done"
    /\ \E i \in 1..Len(calls) : calls[i].fn = "Adapter.Verify" /\ CallErr(calls[i]) = e

\* C21: when the middleware's adapter returns NewChallengeNeeded the response
\* is a 303 redirect to the configured NewChallengeURL if that is non-empty,
\* else to the request's Referer header if that is non-empty, else to "/".
C21_NewChallengeRedirect ==
    C21_Outcome(ErrNewChallenge) =>
        /\ mw.w.status = StatusSeeOther
        /\ mw.config.NewChallengeURL # "" => mw.w.redirect = mw.config.NewChallengeURL
        /\ (mw.config.NewChallengeURL = "" /\ mw.r.Referer # "") =>
              mw.w.redirect = mw.r.Referer
        /\ (mw.config.NewChallengeURL = "" /\ mw.r.Referer = "") => mw.w.redirect = "/"
        /\ ~Called("next.ServeHTTP")

C21_Witness ==
    /\ C21_Outcome(ErrNewChallenge)
    /\ mw.config.NewChallengeURL = ""
    /\ mw.r.Referer = "/came-from"
    /\ mw.w = HttpRedirect("/came-from", StatusSeeOther)

\* C22: when the middleware's adapter returns AttestationRequired the
\* response is a 303 redirect to the configured AttestationURL, whatever
\* NewChallengeURL and the Referer header are.
C22_AttestationRedirect ==
    C21_Outcome(ErrAttestationRequired) =>
        /\ mw.w = HttpRedirect(mw.config.AttestationURL, StatusSeeOther)
        /\ ~Called("next.ServeHTTP")

C22_Witness ==
    /\ C21_Outcome(ErrAttestationRequired)
    /\ mw.config.AttestationURL = ""
    /\ mw.config.NewChallengeURL = "/challenge"
    /\ mw.r.Referer = "/came-from"
    /\ mw.w = HttpRedirect("", StatusSeeOther)

\* C23 as stated: an adapter error whose chain contains the
\* AttestationRequired sentinel is answered by the middleware with 303.
C23_Original ==
    \A e \in AdapterErrs :
        (C21_Outcome(e) /\ Is(e, ErrAttestationRequired)) =>
            mw.w.status = StatusSeeOther

C25_Original ==
    \A i \in 1..Len(calls) :
        (mw.pc = "done" /\ calls[i].fn = "Adapter.Verify"
            /\ Called("next.ServeHTTP") /\ Called("io.ReadAll")) =>
                mw.nextBody = calls[i].args[2]

\* the calls that receive the request, and with it its correlation id, as
\* their first argument
C26_Observers ==
    {"VerifyHooks.Setup", "VerifyHooks.Success", "VerifyHooks.Failed",
     "NewChallengeHooks.Setup", "NewChallengeHooks.Success", "NewChallengeHooks.Failed",
     "AttestationAdapter.Verify", "AttestationAdapter.NewChallenge",
     "Adapter.Verify", "next.ServeHTTP"}

\* C26 as stated: while one inbound request is handled, every adapter call
\* and hook, those of the challenge issuance re-entered from the verify
\* endpoint included, observes the same correlation id, and the generator is
\* invoked at most once for the request.
C26_Original ==
    (hd.pc # "idle" \/ mw.pc # "idle") =>
        /\ CountCalls("NextID") <= 1
        /\ \A i, j \in 1..Len(calls) :
              (calls[i].fn \in C26_Observers /\ calls[j].fn \in C26_Observers) =>
                  calls[i].args[1] = calls[j].args[1]

\* errors of the same kind as e that differ from it in the underlying cause
C27_Variants(e) ==
    {Errorf(s, ": some context: ", c) : s \in KindsOf(e), c \in CollabErrs \cup {NilErr}}
    \cup KindsOf(e)

\* C27: the status and body of a BadRequest or Internal response depend on
\* the error's kind only. Handler with default hooks: whatever error of the
\* same kind but another cause the adapter had returned, the Failed hook's
\* response is the one given. Middleware: whatever collaborator error had
\* made the assertion adapter return that kind, the response is the one
\* given. In both the body is the status text and nothing else.
C27_NoLeak ==
    /\ \A i \in 1..Len(calls) :
          LET e == CallErr(calls[i])
          IN  (/\ hd.pc = "done"
               /\ calls[i].fn = "AttestationAdapter.Verify"
               /\ hd.hook = "VerifyHooks.Failed"
               /\ Is(e, ErrBadRequest) \/ Is(e, ErrInternal)) =>
                  /\ \A x \in C27_Variants(e) : VerifyHooks_Failed(x) = hd.w
                  /\ hd.w.text = StatusText(hd.w.status)
    /\ \A i \in 1..Len(calls) :
          LET e == CallErr(calls[i])
          IN  (/\ hd.pc = "done"
               /\ calls[i].fn = "AttestationAdapter.NewChallenge"
               /\ hd.hook = "NewChallengeHooks.Failed"
               /\ Is(e, ErrBadRequest) \/ Is(e, ErrInternal)) =>
                  /\ \A x \in C27_Variants(e) : NewChallengeHooks_Failed(x) = hd.w
                  /\ hd.w.text = StatusText(hd.w.status)
    /\ C21_Outcome(ErrBadRequest) =>
          /\ \A c \in CollabErrs :
                Handler_Respond(mw, assertionAdapter_ParseRequest(AsIdle, Nil, "", c).ret) = mw.w
          /\ mw.w.text = StatusText(mw.w.status)
    /\ C21_Outcome(ErrInternal) =>
          /\ \A c \in CollabErrs :
                Handler_Respond(mw, assertionAdapter_PublicKeyAndCounter(AsIdle, Nil, 0, c).ret) = mw.w
          /\ mw.w.text = StatusText(mw.w.status)

C27_Witness ==
    /\ hd.pc = "done"
    /\ hd.endpoint = "Verify"
    /\ hd.hook = "VerifyHooks.Failed"
    /\ \E i \in 1..Len(calls) :
          /\ calls[i].fn = "AttestationAdapter.Verify"
          /\ CallErr(calls[i]) = Errorf(ErrInternal, ": failed: ", CollabErr)
    /\ hd.w = HttpError("Internal Server Error", StatusInternalServerError)

\* C30: in every assertion request in which PublicKeyAndCounter reports an
\* absent key, with or without an error, the outcome is not
\* NewChallengeNeeded, and the session's challenge is not even consulted.
C30_NeverNewChallenge ==
    \A i \in 1..Len(calls) :
        (AssertionRunning /\ calls[i].fn = "PublicKeyAndCounter"
            /\ calls[i].res[1] = Nil) =>
                /\ as.pc = "done"
                /\ as.ret # NilErr
                /\ ~Is(as.ret, ErrNewChallenge)
                /\ ~Called("AssignedChallenge")

C30_Witness ==
    /\ as.pc = "done"
    /\ Len(calls) = 2
    /\ calls[2].fn = "PublicKeyAndCounter"
    /\ calls[2].res[1] = Nil
    /\ CallErr(calls[2]) = ErrNewChallenge
    /\ as.ret = ErrInternal

\* C28 as stated: over any interleaving of assertion requests for one
\* device, verified by a service that accepts only a counter exceeding the
\* one it was constructed with, every counter persisted through
\* UpdateCounter is greater than or equal to the one persisted before.
C28_Original == [][store'.counter >= store.counter]_vars

\* C29 as stated: whenever VerificationService.Verify is about to be invoked
\* in the assertion flow, the challenge in its verification context is
\* non-empty and is the challenge assigned to the session at that moment,
\* also while other requests of the session are handled.
C29_Original ==
    \A t \in Threads :
        ta[t].pc = "Verify" =>
            /\ assertionAdapter_NewService(ta[t])[1] # ""
            /\ assertionAdapter_NewService(ta[t])[1] = store.challenge

\* ---- C31: EnsureRequest changes nothing but what it returns: afterwards the
\* request it was given has the context and the header it had before, the
\* generator slot holds the generator it held before, and the id is found in
\* the context of the returned request only (no request is returned on error)
C31_Frame ==
    er.pc = "done" =>
        /\ er.rAfter = er.r
        /\ FromContext(er.rAfter) = FromContext(er.r)
        /\ er.slotAfter = er.slot
        /\ generator = er.slot
        /\ er.out.r.XRequestID = er.r.XRequestID
        /\ er.out.ok => FromContext(er.out.r) = er.out.id
        /\ ~er.out.ok => er.out.r = er.r

\* an id was generated and attached to the returned request while the given
\* request still carries the earlier context value
C31_Witness ==
    /\ er.pc = "done"
    /\ er.out.ok
    /\ er.out.generated = 1
    /\ er.out.id = "generated_id"
    /\ FromContext(er.out.r) = "generated_id"
    /\ FromContext(er.rAfter) = "earlier-id"
    /\ er.slot # NoGenerator
    /\ generator = er.slot

\* ---- C32: the middleware built from a Config works with a body limit of
\* 10<<20 bytes exactly when the Config's BodyLimit is 0, and with the Config's
\* own BodyLimit otherwise; the two URLs are the Config's
C32_DefaultLimit ==
    /\ mw.config.BodyLimit = 10 * 2^20 <=> mw.given.BodyLimit = 0
    /\ mw.given.BodyLimit # 0 => mw.config.BodyLimit = mw.given.BodyLimit
    /\ mw.config.AttestationURL = mw.given.AttestationURL
    /\ mw.config.NewChallengeURL = mw.given.NewChallengeURL
    /\ \A c \in Configs :
          NewAssertionMiddleware(c).BodyLimit =
              IF c.BodyLimit = 0 THEN 10 * 2^20 ELSE c.BodyLimit

\* a middleware built without a BodyLimit has read a request under the default
C32_Witness ==
    /\ mw.pc = "done"
    /\ mw.given.BodyLimit = 0
    /\ mw.config.BodyLimit = 10485760
    /\ mw.nextCalled = 1
    /\ Len(mw.body) = MaxBodyLen

\* a middleware built with a BodyLimit of one byte keeps it
C32_WitnessConfigured ==
    /\ mw.pc = "done"
    /\ mw.given.BodyLimit = 1
    /\ mw.config.BodyLimit = 1

\* ---- C33: the steps of a handler request, in order. At an endpoint:
\* EnsureRequest, the endpoint's Setup hook, the endpoint's adapter operation,
\* then exactly one of the endpoint's Success and Failed hooks; a verify
\* request whose adapter asks for a new challenge goes on, without a Verify
\* hook, with EnsureRequest, NewChallengeHooks.Setup,
\* AttestationAdapter.NewChallenge and one NewChallenge hook. A request stops
\* early only after an EnsureRequest that failed.
C33_IsStep(c) == c.fn # "NextID"

C33_Steps == [i \in 1..Len(SelectSeq(calls, C33_IsStep)) |-> SelectSeq(calls, C33_IsStep)[i].fn]

C33_IsPrefix(s, t) == Len(s) <= Len(t) /\ SubSeq(t, 1, Len(s)) = s

C33_VerifyRuns ==
    {<<"EnsureRequest", "VerifyHooks.Setup", "AttestationAdapter.Verify", h>> :
        h \in {"VerifyHooks.Success", "VerifyHooks.Failed"}}

C33_NewChallengeRuns ==
    {<<"EnsureRequest", "NewChallengeHooks.Setup", "AttestationAdapter.NewChallenge", h>> :
        h \in {"NewChallengeHooks.Success", "NewChallengeHooks.Failed"}}

C33_ReentryRuns ==
    {<<"EnsureRequest", "VerifyHooks.Setup", "AttestationAdapter.Verify">> \o n :
        n \in C33_NewChallengeRuns}

C33_Runs ==
    IF hd.endpoint = "Verify" THEN C33_VerifyRuns \cup C33_ReentryRuns
    ELSE C33_NewChallengeRuns

C33_StepOrder ==
    hd.pc # "idle" =>
        /\ \E run \in C33_Runs : C33_IsPrefix(C33_Steps, run)
        /\ hd.pc = "done" =>
              \/ C33_Steps \in C33_Runs
              \/ /\ calls # <<>>
                 /\ calls[Len(calls)].fn = "EnsureRequest"
                 /\ CallErr(calls[Len(calls)]) # NilErr
        /\ \A i \in 1..Len(calls) :
              calls[i].fn = "AttestationAdapter.Verify" =>
                  IF i = Len(calls)
                  THEN /\ Is(CallErr(calls[i]), ErrNewChallenge)
                       /\ hd.pc = "NewChallenge_getLogger"
                  ELSE /\ Is(CallErr(calls[i]), ErrNewChallenge) <=>
                             calls[i + 1].fn \in {"NextID", "EnsureRequest"}
                       /\ CallErr(calls[i]) = NilErr <=>
                             calls[i + 1].fn = "VerifyHooks.Success"

\* a verify request went through both endpoints and ended in a NewChallenge hook
C33_Witness ==
    /\ hd.pc = "done"
    /\ hd.endpoint = "Verify"
    /\ C33_Steps = <<"EnsureRequest", "VerifyHooks.Setup", "AttestationAdapter.Verify",
                     "EnsureRequest", "NewChallengeHooks.Setup",
                     "AttestationAdapter.NewChallenge", "NewChallengeHooks.Failed">>

\* ---- C34: a request to handler.Verify, handler.NewChallenge or the
\* middleware ends, and ends with exactly one terminal effect. Every step of
\* a request moves it strictly down a finite ranking of its positions and
\* every position before the end has a step to take, so a request whose
\* collaborators return is finished after at most five steps; when it is
\* finished exactly one of these happened: a status response or a redirect was
\* written, or the wrapped handler was called (handler: one hook ran or the
\* 500 of a failed EnsureRequest was written). A verify request enters
\* challenge issuance at most once and issuance never calls verification.
C34_HandlerRank(pc) ==
    CASE pc = "Verify_getLogger" -> 5
      [] pc = "Verify" -> 4
      [] pc = "NewChallenge_getLogger" -> 3
      [] pc = "NewChallenge" -> 2
      [] pc = "done" -> 1
      [] OTHER -> 0

C34_MiddlewareRank(pc) ==
    CASE pc = "EnsureRequest" -> 5
      [] pc = "ReadBody" -> 4
      [] pc = "Verify" -> 3
      [] pc = "next" -> 2
      [] pc = "done" -> 1
      [] OTHER -> 0

C34_EnsureFailed ==
    \E i \in 1..Len(calls) : calls[i].fn = "EnsureRequest" /\ CallErr(calls[i]) # NilErr

C34_ReadRefused ==
    \E i \in 1..Len(calls) :
        /\ calls[i].fn = "io.ReadAll"
        /\ CallErr(calls[i]) # NilErr \/ Len(calls[i].res[1]) > mw.config.BodyLimit

C34_One(b) == IF b THEN 1 ELSE 0

C34_MiddlewareEffects ==
    C34_One(C34_EnsureFailed) + C34_One(C34_ReadRefused)
    + C34_One(mw.err # NilErr) + mw.nextCalled

C34_HandlerEffects ==
    C34_One(C34_EnsureFailed)
    + CountCalls("VerifyHooks.Success") + CountCalls("VerifyHooks.Failed")
    + CountCalls("NewChallengeHooks.Success") + CountCalls("NewChallengeHooks.Failed")

C34_OneEffect ==
    /\ mw.pc \notin {"idle", "done"} => C34_MiddlewareEffects = 0
    /\ mw.pc = "done" =>
          /\ C34_MiddlewareEffects = 1
          /\ mw.nextCalled = CountCalls("next.ServeHTTP")
          /\ mw.w # NoResponse
          /\ mw.nextCalled = 0 =>
                /\ mw.w.status \in {StatusSeeOther, StatusBadRequest, StatusInternalServerError}
                /\ mw.w.redirect # Nil <=> mw.w.status = StatusSeeOther
    /\ hd.pc \notin {"idle", "done"} => C34_HandlerEffects = 0 /\ hd.w = NoResponse
    /\ hd.pc = "done" => C34_HandlerEffects = 1 /\ hd.w # NoResponse

C34_Progress ==
    /\ hd.pc = "Verify_getLogger" => ENABLED HandlerVerifyGetLogger
    /\ hd.pc = "Verify" => ENABLED HandlerVerify
    /\ hd.pc = "NewChallenge_getLogger" => ENABLED HandlerNewChallengeGetLogger
    /\ hd.pc = "NewChallenge" => ENABLED HandlerNewChallenge
    /\ mw.pc = "EnsureRequest" => ENABLED MiddlewareEnsureRequest
    /\ mw.pc = "ReadBody" => ENABLED MiddlewareReadBody
    /\ mw.pc = "Verify" => ENABLED MiddlewareVerify
    /\ mw.pc = "next" => ENABLED MiddlewareNext

C34_ReentryOnce ==
    /\ CountCalls("NewChallengeHooks.Setup") <= 1
    /\ CountCalls("AttestationAdapter.NewChallenge") <= 1
    /\ CountCalls("AttestationAdapter.Verify") <= 1
    /\ \A i, j \in 1..Len(calls) :
          (calls[i].fn = "NewChallengeHooks.Setup" /\ i < j) =>
              calls[j].fn \notin {"VerifyHooks.Setup", "AttestationAdapter.Verify",
                                  "VerifyHooks.Success", "VerifyHooks.Failed"}

C34_StepDescends ==
    /\ (hd.pc # "idle" /\ hd' # hd) => C34_HandlerRank(hd'.pc) < C34_HandlerRank(hd.pc)
    /\ (mw.pc # "idle" /\ mw' # mw) => C34_MiddlewareRank(mw'.pc) < C34_MiddlewareRank(mw.pc)

C34_Terminates ==
    /\ [](C34_OneEffect /\ C34_Progress /\ C34_ReentryOnce)
    /\ [][C34_StepDescends]_vars

\* a verify request that went through challenge issuance has ended with the
\* one response of a NewChallenge hook
C34_Witness ==
    /\ hd.pc = "done"
    /\ hd.endpoint = "Verify"
    /\ CountCalls("AttestationAdapter.Verify") = 1
    /\ CountCalls("AttestationAdapter.NewChallenge") = 1
    /\ C34_HandlerEffects = 1
    /\ CountCalls("NewChallengeHooks.Success") = 1
    /\ hd.w.status = StatusOK

\* a middleware request has ended with a redirect and without the wrapped handler
C34_WitnessRedirect ==
    /\ mw.pc = "done"
    /\ mw.err = ErrNewChallenge
    /\ mw.w.status = StatusSeeOther
    /\ mw.nextCalled = 0
    /\ C34_MiddlewareEffects = 1

\* ---- C35: when AttestationAdapter.Verify returns an error the request's
\* result slot holds the value it held before the call; the slot is changed
\* only by a call that returns success
C35_Original ==
    (at.pc = "done" /\ at.ret # NilErr) => at.Result = at.Result0

\* what holds instead: the slot is as before when Verify fails before or in
\* the verification service, and holds the service's result from then on,
\* whether StoreResult succeeds or fails
C35_SlotSetBeforeStore ==
    at.pc = "done" =>
        IF Called("StoreResult") THEN at.Result = at.result
        ELSE at.Result = at.Result0 /\ at.ret # NilErr

\* StoreResult failed: Verify returns Internal and the slot holds the new result
C35_Witness ==
    /\ at.pc = "done"
    /\ Is(at.ret, ErrInternal)
    /\ Called("StoreResult")
    /\ at.Result = at.result
    /\ at.Result # at.Result0

\* ---- C36: the read ceiling is BodyLimit + 1 without wrap-around: under
\* every positive BodyLimit, the largest included, the ceiling handed to the
\* limited reader is above BodyLimit, and a body of at most BodyLimit bytes
\* whose read does not fail is read completely, is the body passed to the
\* adapter and, when the adapter leaves the stream alone, the body the
\* wrapped handler reads
C36_Original ==
    \A i \in 1..Len(calls) :
        (mw.pc # "idle" /\ calls[i].fn = "io.ReadAll" /\ mw.config.BodyLimit > 0) =>
            LET body  == calls[i].args[2]
                fails == body.failAt >= 0 /\ body.failAt <= Len(body.data)
            IN  /\ calls[i].args[1] > mw.config.BodyLimit
                /\ (~fails /\ Len(body.data) <= mw.config.BodyLimit) =>
                      /\ calls[i].res[1] = body.data
                      /\ mw.body = body.data
                      /\ \A j \in 1..Len(calls) :
                            /\ calls[j].fn = "Adapter.Verify" => calls[j].args[2] = body.data
                            /\ (calls[j].fn = "Adapter.Verify" /\ calls[j].args[3] = 0
                                  /\ mw.nextCalled = 1) => mw.nextBody = body.data

\* what holds instead: the same for every BodyLimit below the largest, and at
\* the largest the ceiling is the smallest integer and nothing is read
C36_BelowMax ==
    \A i \in 1..Len(calls) :
        (mw.pc # "idle" /\ calls[i].fn = "io.ReadAll" /\ mw.config.BodyLimit > 0) =>
            LET body  == calls[i].args[2]
                fails == body.failAt >= 0 /\ body.failAt <= Len(body.data)
            IN  IF mw.config.BodyLimit = MaxInt64
                THEN /\ calls[i].args[1] = MinInt64
                     /\ calls[i].res = <<(<<>>), NilErr>>
                     /\ mw.body = <<>>
                ELSE /\ calls[i].args[1] = mw.config.BodyLimit + 1
                     /\ (~fails /\ Len(body.data) <= mw.config.BodyLimit) =>
                           /\ calls[i].res[1] = body.data
                           /\ mw.body = body.data
                           /\ \A j \in 1..Len(calls) :
                                 /\ calls[j].fn = "Adapter.Verify" =>
                                       calls[j].args[2] = body.data
                                 /\ (calls[j].fn = "Adapter.Verify" /\ calls[j].args[3] = 0
                                       /\ mw.nextCalled = 1) => mw.nextBody = body.data

\* under the largest BodyLimit a body of MaxBodyLen bytes reached the wrapped
\* handler empty
C36_Witness ==
    /\ mw.pc = "done"
    /\ mw.config.BodyLimit = MaxInt64
    /\ mw.nextCalled = 1
    /\ mw.nextBody = <<>>
    /\ \E i \in 1..Len(calls) :
          /\ calls[i].fn = "io.ReadAll"
          /\ Len(calls[i].args[2].data) = MaxBodyLen
          /\ calls[i].args[2].failAt = -1
          /\ calls[i].args[1] = MinInt64

\* ---- C37: every line a level method of a StdLogger writes begins with that
\* method's own tag, however calls of different level methods on the same
\* StdLogger interleave
C37_Original ==
    \A i \in 1..Len(lg.out) : lg.out[i].prefix = LevelTag(lg.out[i].by)

\* what holds instead: a line begins with the tag of the level method that
\* set the prefix last, its own or another thread's
C37_SomeTag ==
    /\ \A i \in 1..Len(lg.out) : lg.out[i].prefix \in {LevelTag(l) : l \in Levels}
    /\ \A t \in LogThreads : tl[t].pc = "Printf" => lg.prefix # ""

\* Errorf has written its line under the tag Debugf set
C37_Witness ==
    /\ Len(lg.out) >= 1
    /\ lg.out[1].by = "Errorf"
    /\ lg.out[1].prefix = "[Debug]"

====
